---------------------------- MODULE Spec2Model ----------------------------
(***************************************************************************)
(* A model of certifiable-quant: the deterministic primitives, the static  *)
(* analyzer, the calibrator, the verifier and the notary.                  *)
(*                                                                         *)
(* Each component owns its context (spec section 5: no shared state), so   *)
(* each has its own group of variables and its own specification; a        *)
(* specification leaves the other components' variables at their initial   *)
(* values.                                                                 *)
(*                                                                         *)
(* Conventions.                                                            *)
(*  - Memory (a cq_certificate_t, a byte buffer) is a function from C byte *)
(*    offsets 0..n-1 to cells.  A cell holding the byte b is <<b>>; the    *)
(*    first cell of a SHA-256 digest is <<0, m>> for the message m hashed. *)
(*  - A pointer argument is <<>> (NULL) or the value pointed to; a result  *)
(*    code is <<>> before the call and <<rc>> after it.                    *)
(*  - A double or float is modelled by an integer number of a fixed unit   *)
(*    (exact real arithmetic on a grid); comparisons are the C ones.       *)
(*  - SHA-256 is collision-free: a digest is a symbolic value that is      *)
(*    equal for equal messages only.                                       *)
(*  - A cq_fault_flags_t is the set of the names of its bits that are 1.   *)
(***************************************************************************)
EXTENDS Integers, Sequences, FiniteSets, TLC

VARIABLES
    \* ---- notary (certificate.c) ----
    builder,        \* cq_certificate_builder_t
    cert,           \* the caller's cq_certificate_t (360 bytes of memory)
    build_rc,       \* result of the last cq_certificate_build
    build_faults,   \* the caller's cq_fault_flags_t given to build
    buffer,         \* the caller's serialisation buffer
    buf_size,       \* *size written by cq_certificate_serialise
    cert_restored,  \* the cq_certificate_t cq_certificate_deserialise fills
    deser_rc,       \* result of the last cq_certificate_deserialise
    tampered,       \* the offset of the byte changed after build, -1 if none
    cert_calls,     \* history: the setter calls made on the builder
    \* ---- verifier (verify.c) ----
    ver_layers,     \* the caller's cq_layer_comparison_t array
    ver_report,     \* cq_verification_report_t
    ver_faults,     \* the caller's cq_fault_flags_t after the last bound check
    ver_rc,         \* result of the last cq_verify_check_all_bounds
    ver_digest,     \* cq_verification_digest_t, <<>> until generated
    ver_fed,        \* history: the error samples fed, per layer and ("total")
    ver_checked,    \* history: the bounds were checked after the last update
    \* ---- calibrator (calibrate.c) ----
    cal_tensors,    \* the caller's cq_tensor_stats_t array
    cal_report,     \* cq_calibration_report_t
    cal_faults,     \* the caller's cq_fault_flags_t after the last finalize
    cal_rc,         \* result of the last cq_calibration_report_finalize
    cal_ops,        \* history: the number of update calls so far
    cal_final,      \* history: finalize ran after the last update
    cal_seen,       \* history: least and greatest finite value fed, per tensor
    cal_digest,     \* cq_calibration_digest_t, <<>> until generated
    \* ---- overflow proof (analyze.c, primitives.c) ----
    ovf_proof,      \* the caller's cq_overflow_proof_t, UNINIT until computed
    ovf_rc,         \* result of the last cq_compute_overflow_proof
    ovf_wrapped,    \* history: a 64-bit intermediate of that call wrapped
    ovf_pre,        \* result of the last cq_overflow_is_safe on the proof
    \* ---- analyzer context (analyze.c) ----
    ana_layers,     \* the caller's cq_layer_contract_t array
    ana_ctx,        \* cq_analysis_ctx_t
    ana_pos,        \* the layer the driver is analysing (layer_count + 1: done)
    ana_phase,      \* the next call the driver makes for that layer
    ana_rc,         \* result of the last cq_compute_total_error
    ana_inputs,     \* the arguments the driver chooses from
    \* ---- DVM primitives (primitives.c) ----
    prim_call,      \* the primitive called and its arguments, <<>> if none
    prim_out,       \* what that call returned and left in the fault flags
    mac_proof,      \* the cq_overflow_proof_t computed for a dot product
    mac_acc,        \* the caller's cq_accum64_t
    mac_faults,     \* the caller's cq_fault_flags_t of the accumulation
    mac_count,      \* history: cq_mac_q16 calls made on the accumulator
    mac_sum,        \* history: the exact sum of the products so far
    mac_within,     \* history: every operand so far was within the proof's
                    \* magnitudes
    \* ---- converter (weight_quant.c) ----
    conv_call,      \* the converter function called, <<>> if none
    conv_hdr,       \* the caller's cq_layer_header_t after the call
    conv_spec,      \* the cq_tensor_spec_t given to cq_convert_weights
    conv_wq,        \* the caller's w_q buffer after the call
    conv_faults,    \* the caller's cq_fault_flags_t after the call
    conv_rc,        \* result of the call
    \* ---- streaming SHA-256 (sha256.c) ----
    sha_msg,        \* the message the caller hashes
    sha_ctx,        \* cq_sha256_ctx_t
    sha_pos,        \* bytes of the message fed so far
    sha_digest,     \* the digest cq_sha256_final wrote, <<>> before
    sha_hi,         \* history: the highest buffer index written so far
    sha_split       \* history: kinds of chunk fed so far

certVars == <<builder, cert, build_rc, build_faults, buffer, buf_size,
              cert_restored, deser_rc, tampered, cert_calls>>

verVars == <<ver_layers, ver_report, ver_faults, ver_rc, ver_digest, ver_fed,
             ver_checked>>

calVars == <<cal_tensors, cal_report, cal_faults, cal_rc, cal_ops, cal_final,
             cal_seen, cal_digest>>

ovfVars == <<ovf_proof, ovf_rc, ovf_wrapped, ovf_pre>>

anaVars == <<ana_layers, ana_ctx, ana_pos, ana_phase, ana_rc, ana_inputs>>

macVars == <<mac_proof, mac_acc, mac_faults, mac_count, mac_sum, mac_within>>

primVars == <<prim_call, prim_out, macVars>>

convVars == <<conv_call, conv_hdr, conv_spec, conv_wq, conv_faults, conv_rc>>

shaVars == <<sha_msg, sha_ctx, sha_pos, sha_digest, sha_hi, sha_split>>

vars == <<certVars, verVars, calVars, ovfVars, anaVars, primVars, convVars,
          shaVars>>

\* the variables of the other components, which a component's operations
\* cannot reach
nonCert == <<verVars, calVars, ovfVars, anaVars, primVars, convVars,
              shaVars>>
nonVer == <<certVars, calVars, ovfVars, anaVars, primVars, convVars,
             shaVars>>
nonCal == <<certVars, verVars, ovfVars, anaVars, primVars, convVars,
             shaVars>>
nonOvf == <<certVars, verVars, calVars, anaVars, primVars, convVars,
             shaVars>>
nonAna == <<certVars, verVars, calVars, ovfVars, primVars, convVars,
             shaVars>>
nonPrim == <<certVars, verVars, calVars, ovfVars, anaVars, convVars,
              shaVars>>
nonSha == <<certVars, verVars, calVars, ovfVars, anaVars, primVars, convVars>>
nonConv == <<certVars, verVars, calVars, ovfVars, anaVars, primVars,
              shaVars>>

(***************************************************************************)
(* cq_types.h                                                              *)
(***************************************************************************)
NULL == <<>>

\* caller memory that no call has written yet
UNINIT == <<>>

\* a result code before the call
NotCalled == <<>>

CQ_ERROR_NULL_POINTER == -1
CQ_FAULT_BOUND_VIOLATION == 64

FaultNames == {"overflow", "underflow", "div_zero", "range_exceed",
               "unfolded_bn", "asymmetric", "bound_violation"}

FatalFaults == {"div_zero", "range_exceed", "unfolded_bn", "asymmetric",
                "bound_violation"}

cq_has_fatal_fault(f) == f \cap FatalFaults # {}

cq_fault_clear == {}

cq_fault_merge(dst, src) == dst \cup src

(***************************************************************************)
(* Memory helpers                                                          *)
(***************************************************************************)
RECURSIVE LEBytes(_, _)
\* The n little-endian bytes of the unsigned integer v, as cells.
LEBytes(v, n) == IF n = 0 THEN <<>> ELSE <<<<v % 256>>>> \o LEBytes(v \div 256, n - 1)

\* the cells of a byte string
Cells(bytes) == [i \in 1..Len(bytes) |-> <<bytes[i]>>]

\* memset(p, b, n) as cells
Fill(b, n) == [i \in 1..n |-> <<b>>]

\* memcpy(mem + off, bytes, Len(bytes))
MemPut(mem, off, bytes) ==
    [o \in DOMAIN mem |->
        IF o >= off /\ o < off + Len(bytes) THEN bytes[o - off + 1] ELSE mem[o]]

\* the n bytes of mem from offset off
MemGet(mem, off, n) == [i \in 1..n |-> mem[off + i - 1]]

(***************************************************************************)
(* sha256.c, abstracted: the 32-byte digest of a message.  Its first cell  *)
(* carries the message itself, so that two digests are equal exactly when  *)
(* the messages are (no collisions); the other cells carry no information. *)
(***************************************************************************)
CQ_SHA256_DIGEST_SIZE == 32

Sha256Digest(msg) ==
    [i \in 1..CQ_SHA256_DIGEST_SIZE |-> IF i = 1 THEN <<0, msg>> ELSE <<0>>]

(***************************************************************************)
(* certificate.h: the layout of cq_certificate_t                           *)
(***************************************************************************)
CQ_CERTIFICATE_SIZE == 360
CQ_CERTIFICATE_MAGIC == Cells(<<67, 81, 67, 82>>)      \* "CQCR"
CQ_SCOPE_SYMMETRIC_ONLY == 1
CQ_FORMAT_Q16_16_CODE == 0
CQ_FORMAT_Q8_24_CODE == 1

OFF_magic == 0
OFF_version == 4
OFF_timestamp == 8
OFF_scope_symmetric_only == 16
OFF_scope_format == 17
OFF_source_model_hash == 24
OFF_bn_folding_hash == 56
OFF_bn_folding_status == 88
OFF_analysis_digest == 96
OFF_calibration_digest == 128
OFF_verification_digest == 160
OFF_epsilon_0_claimed == 192
OFF_epsilon_total_claimed == 200
OFF_epsilon_max_measured == 208
OFF_target_model_hash == 224
OFF_target_param_count == 256
OFF_target_layer_count == 260
OFF_merkle_root == 264
OFF_signature == 296

CertOffsets == 0..(CQ_CERTIFICATE_SIZE - 1)

\* memset(cert, 0, sizeof(*cert))
ZeroCert == [o \in CertOffsets |-> <<0>>]

(***************************************************************************)
(* The inputs the driver hands to the builder                              *)
(***************************************************************************)
\* 32-byte hashes, given as memset(hash, b, 32) like the unit tests do
HashArgs == {Fill(170, 32)}

\* values time(NULL) may return
NumTimestamps == 2
Timestamps == {1700000000 + 255 * k : k \in 0..(NumTimestamps - 1)}

\* format tags the driver may pass to set_format (a uint8_t)
MaxFormatTag == 2
FormatTags == 0..MaxFormatTag

\* the largest error value (in grid units) a digest carries
MaxDigestError == 2

AnalysisDigests ==
    { [entry_error |-> 1, total_error_bound |-> MaxDigestError, layer_count |-> 2,
       overflow_safe_count |-> 2, layers_hash |-> 204] }

CalibrationDigests ==
    { [dataset_hash |-> 221, sample_count |-> 1000, tensor_count |-> 10,
       global_coverage_min |-> 92, global_coverage_p10 |-> 95,
       range_veto_status |-> r, coverage_veto_status |-> 0] : r \in {0, 1} }

VerificationDigests ==
    { [verification_set_hash |-> 238, sample_count |-> 500, layers_passed |-> 2,
       total_error_theoretical |-> MaxDigestError, total_error_max_measured |-> m,
       bounds_satisfied |-> IF m <= MaxDigestError THEN 1 ELSE 0]
      : m \in {MaxDigestError, MaxDigestError + 1} }

\* the digest structures after memset(builder, 0, sizeof(*builder))
ZeroAnalysisDigest ==
    [entry_error |-> 0, total_error_bound |-> 0, layer_count |-> 0,
     overflow_safe_count |-> 0, layers_hash |-> 0]

ZeroCalibrationDigest ==
    [dataset_hash |-> 0, sample_count |-> 0, tensor_count |-> 0,
     global_coverage_min |-> 0, global_coverage_p10 |-> 0,
     range_veto_status |-> 0, coverage_veto_status |-> 0]

ZeroVerificationDigest ==
    [verification_set_hash |-> 0, sample_count |-> 0, layers_passed |-> 0,
     total_error_theoretical |-> 0, total_error_max_measured |-> 0,
     bounds_satisfied |-> 0]

(***************************************************************************)
(* certificate.c: the builder                                              *)
(***************************************************************************)
cq_certificate_builder_init ==
    [ source_model_hash     |-> Fill(0, 32),
      source_model_hash_set |-> FALSE,
      bn_folding_hash       |-> Fill(0, 32),
      bn_folded             |-> FALSE,
      bn_info_set           |-> FALSE,
      analysis_digest       |-> ZeroAnalysisDigest,
      analysis_set          |-> FALSE,
      calibration_digest    |-> ZeroCalibrationDigest,
      calibration_set       |-> FALSE,
      verification_digest   |-> ZeroVerificationDigest,
      verification_set      |-> FALSE,
      target_model_hash     |-> Fill(0, 32),
      target_param_count    |-> 0,
      target_layer_count    |-> 0,
      target_set            |-> FALSE,
      scope_format          |-> CQ_FORMAT_Q16_16_CODE,
      tool_version          |-> Cells(<<0, 1, 0, 0>>),
      faults                |-> cq_fault_clear ]

cq_certificate_builder_set_version(b, major, minor, patch, build) ==
    [b EXCEPT !.tool_version = Cells(<<major, minor, patch, build>>)]

cq_certificate_builder_set_source_hash(b, hash) ==
    IF hash = NULL THEN b
    ELSE [b EXCEPT !.source_model_hash = hash, !.source_model_hash_set = TRUE]

cq_certificate_builder_set_bn_info(b, folded, hash) ==
    [b EXCEPT !.bn_folded = folded,
              !.bn_folding_hash = IF hash # NULL THEN hash ELSE Fill(0, 32),
              !.bn_info_set = TRUE]

cq_certificate_builder_set_analysis(b, digest) ==
    IF digest = NULL THEN b
    ELSE [b EXCEPT !.analysis_digest = digest[1], !.analysis_set = TRUE]

cq_certificate_builder_set_calibration(b, digest) ==
    IF digest = NULL THEN b
    ELSE [b EXCEPT !.calibration_digest = digest[1], !.calibration_set = TRUE]

cq_certificate_builder_set_verification(b, digest) ==
    IF digest = NULL THEN b
    ELSE [b EXCEPT !.verification_digest = digest[1], !.verification_set = TRUE]

cq_certificate_builder_set_target(b, hash, param_count, layer_count) ==
    IF hash = NULL THEN b
    ELSE [b EXCEPT !.target_model_hash = hash,
                   !.target_param_count = param_count,
                   !.target_layer_count = layer_count,
                   !.target_set = TRUE]

cq_certificate_builder_set_format(b, format) ==
    [b EXCEPT !.scope_format = format]

IsCompleteIgnoringTarget(b) ==
    /\ b.source_model_hash_set
    /\ b.bn_info_set
    /\ b.analysis_set
    /\ b.calibration_set
    /\ b.verification_set

cq_certificate_builder_is_complete(b) ==
    /\ b.source_model_hash_set
    /\ b.bn_info_set
    /\ b.analysis_set
    /\ b.calibration_set
    /\ b.verification_set
    /\ b.target_set

(***************************************************************************)
(* certificate.c: generation, integrity, header                            *)
(***************************************************************************)
\* hash_analysis_digest / hash_calibration_digest / hash_verification_digest:
\* SHA-256 of the digest structure's bytes (the structure stands for them)
hash_digest(digest) == Sha256Digest(<<digest>>)

\* offsetof(cq_certificate_t, merkle_root)
MerkleContentSizeShort == OFF_target_param_count
MerkleContentSize == OFF_merkle_root

cq_certificate_compute_merkle(c) ==
    Sha256Digest(MemGet(c, 0, MerkleContentSize))

cq_certificate_verify_integrity(c) ==
    cq_certificate_compute_merkle(c) = MemGet(c, OFF_merkle_root, CQ_SHA256_DIGEST_SIZE)

VerifyHeaderAnyFormat(c) ==
    /\ MemGet(c, OFF_magic, 4) = CQ_CERTIFICATE_MAGIC
    /\ c[OFF_scope_symmetric_only] = <<CQ_SCOPE_SYMMETRIC_ONLY>>

cq_certificate_verify_header(c) ==
    IF MemGet(c, OFF_magic, 4) # CQ_CERTIFICATE_MAGIC THEN FALSE
    ELSE IF c[OFF_scope_symmetric_only] # <<CQ_SCOPE_SYMMETRIC_ONLY>> THEN FALSE
    ELSE IF c[OFF_scope_format] # <<CQ_FORMAT_Q16_16_CODE>>
            /\ c[OFF_scope_format] # <<CQ_FORMAT_Q8_24_CODE>> THEN FALSE
    ELSE TRUE

\* The certificate memory after steps 1-6 of cq_certificate_build
CertContent(b, now) ==
    LET c0 == ZeroCert
        c1 == MemPut(c0, OFF_magic, CQ_CERTIFICATE_MAGIC)
        c2 == MemPut(c1, OFF_version, b.tool_version)
        c3 == MemPut(c2, OFF_timestamp, LEBytes(now, 8))
        c4 == MemPut(c3, OFF_scope_symmetric_only, Cells(<<CQ_SCOPE_SYMMETRIC_ONLY>>))
        c5 == MemPut(c4, OFF_scope_format, Cells(<<b.scope_format>>))
        c6 == MemPut(c5, OFF_source_model_hash, b.source_model_hash)
        c7 == MemPut(c6, OFF_bn_folding_hash, b.bn_folding_hash)
        c8 == MemPut(c7, OFF_bn_folding_status, Cells(<<IF b.bn_folded THEN 1 ELSE 0>>))
        c9 == MemPut(c8, OFF_analysis_digest, hash_digest(b.analysis_digest))
        c10 == MemPut(c9, OFF_calibration_digest, hash_digest(b.calibration_digest))
        c11 == MemPut(c10, OFF_verification_digest, hash_digest(b.verification_digest))
        c12 == MemPut(c11, OFF_epsilon_0_claimed, LEBytes(b.analysis_digest.entry_error, 8))
        c13 == MemPut(c12, OFF_epsilon_total_claimed,
                      LEBytes(b.analysis_digest.total_error_bound, 8))
        c14 == MemPut(c13, OFF_epsilon_max_measured,
                      LEBytes(b.verification_digest.total_error_max_measured, 8))
        c15 == MemPut(c14, OFF_target_model_hash, b.target_model_hash)
        c16 == MemPut(c15, OFF_target_param_count, LEBytes(b.target_param_count, 4))
        c17 == MemPut(c16, OFF_target_layer_count, LEBytes(b.target_layer_count, 4))
    IN  c17

\* cq_certificate_build(builder, cert, faults): the result code, the caller's
\* certificate memory and the caller's fault flags after the call
cq_certificate_build(b, c, faults, now, null_arg) ==
    IF null_arg THEN [rc |-> CQ_ERROR_NULL_POINTER, cert |-> c, faults |-> faults]
    ELSE IF ~cq_certificate_builder_is_complete(b)
         THEN [rc |-> -2, cert |-> c, faults |-> faults]
    ELSE LET content == CertContent(b, now)
             rooted  == MemPut(content, OFF_merkle_root,
                               cq_certificate_compute_merkle(content))
             signed  == MemPut(rooted, OFF_signature, Fill(0, 64))
         IN  [rc |-> 0, cert |-> signed,
              faults |-> cq_fault_merge(faults, b.faults)]

\* a double read back from its eight bytes
RECURSIVE LEValue(_)
LEValue(bytes) ==
    IF bytes = <<>> THEN 0 ELSE bytes[1][1] + 256 * LEValue(Tail(bytes))

\* certificate.h: cert->epsilon_max_measured <= cert->epsilon_total_claimed
cq_certificate_bounds_satisfied(c) ==
    LEValue(MemGet(c, OFF_epsilon_max_measured, 8))
        <= LEValue(MemGet(c, OFF_epsilon_total_claimed, 8))

(***************************************************************************)
(* certificate.c: serialisation                                            *)
(***************************************************************************)
\* memcpy(buffer, cert, sizeof(cq_certificate_t)); *size = sizeof(...)
cq_certificate_serialise(c) ==
    [rc |-> 0, buffer |-> [o \in CertOffsets |-> c[o]], size |-> CQ_CERTIFICATE_SIZE]

cq_certificate_deserialise(buf, size, c) ==
    IF buf = NULL THEN [rc |-> CQ_ERROR_NULL_POINTER, cert |-> c]
    ELSE IF size < CQ_CERTIFICATE_SIZE THEN [rc |-> -2, cert |-> c]
    ELSE LET copied == [o \in CertOffsets |-> buf[o]]
         IN  IF ~cq_certificate_verify_header(copied)
             THEN [rc |-> -3, cert |-> copied]
             ELSE [rc |-> 0, cert |-> copied]

(***************************************************************************)
(* verify.c: bound checking, aggregation, report, digest                   *)
(* Errors and bounds are numbers of grid units; an error sample is an      *)
(* L-infinity norm (cq_linf_norm never returns a negative value or NaN)    *)
(* and a theoretical bound is an analyzer epsilon, so both are >= 0.       *)
(***************************************************************************)
cq_layer_comparison_init(layer_index, bound) ==
    [ layer_index             |-> layer_index,
      sample_count            |-> 0,
      error_max_measured      |-> 0,
      error_mean_measured     |-> 0,
      error_std_measured      |-> 0,
      error_bound_theoretical |-> bound,
      error_sum               |-> 0,
      error_sum_sq            |-> 0,
      bound_satisfied         |-> FALSE ]

cq_verification_report_init(layer_count, total_bound) ==
    [ verification_set_hash    |-> 0,
      sample_count             |-> 0,
      layer_count              |-> layer_count,
      total_error_theoretical  |-> total_bound,
      total_error_max_measured |-> 0,
      total_error_mean         |-> 0,
      total_error_std          |-> 0,
      total_error_sum          |-> 0,
      total_error_sum_sq       |-> 0,
      all_bounds_satisfied     |-> FALSE,
      total_bound_satisfied    |-> FALSE,
      faults                   |-> cq_fault_clear ]

\* the comparison that decides a violation: measured > bound
ExceedsStrict(measured, bound) == measured > bound
ExceedsOrEqual(measured, bound) == measured >= bound
Exceeds(measured, bound) == ExceedsStrict(measured, bound)

cq_verify_check_bounds(layer, faults) ==
    IF Exceeds(layer.error_max_measured, layer.error_bound_theoretical)
    THEN [rc |-> CQ_FAULT_BOUND_VIOLATION,
          layer |-> [layer EXCEPT !.bound_satisfied = FALSE],
          faults |-> faults \cup {"bound_violation"}]
    ELSE [rc |-> 0,
          layer |-> [layer EXCEPT !.bound_satisfied = TRUE],
          faults |-> faults]

RECURSIVE CheckLayersFrom(_, _)
\* the loop "for (i = 0; i < report->layer_count; i++)" of
\* cq_verify_check_all_bounds from layer i on; st is the state so far
CheckLayersFrom(i, st) ==
    IF i > st.report.layer_count THEN st
    ELSE LET r == cq_verify_check_bounds(st.layers[i], st.faults)
         IN  CheckLayersFrom(i + 1,
                [ result |-> IF r.rc # 0 THEN r.rc ELSE st.result,
                  report |-> IF r.rc # 0
                             THEN [st.report EXCEPT !.all_bounds_satisfied = FALSE]
                             ELSE st.report,
                  layers |-> [st.layers EXCEPT ![i] = r.layer],
                  faults |-> r.faults ])

cq_verify_check_all_bounds(report, layers, faults) ==
    LET st0 == [ result |-> 0,
                 report |-> [report EXCEPT !.all_bounds_satisfied = TRUE],
                 layers |-> layers,
                 faults |-> faults ]
        st1 == CheckLayersFrom(1, st0)
        bad == Exceeds(st1.report.total_error_max_measured,
                       st1.report.total_error_theoretical)
        f2  == IF bad THEN st1.faults \cup {"bound_violation"} ELSE st1.faults
    IN  [ rc     |-> IF bad THEN CQ_FAULT_BOUND_VIOLATION ELSE st1.result,
          report |-> [st1.report EXCEPT
                        !.total_bound_satisfied = ~bad,
                        !.faults = cq_fault_merge(st1.report.faults, f2)],
          layers |-> st1.layers,
          faults |-> f2 ]

cq_verify_layer_update(layer, error) ==
    [layer EXCEPT
        !.sample_count = @ + 1,
        !.error_max_measured = IF error > @ THEN error ELSE @,
        !.error_sum = @ + error,
        !.error_sum_sq = @ + error * error]

cq_verify_total_update(report, error) ==
    [report EXCEPT
        !.sample_count = @ + 1,
        !.total_error_max_measured = IF error > @ THEN error ELSE @,
        !.total_error_sum = @ + error,
        !.total_error_sum_sq = @ + error * error]

\* the number of layers among 1..n whose bound_satisfied flag is set
RECURSIVE CountPassed(_, _)
CountPassed(layers, n) ==
    IF n = 0 THEN 0
    ELSE CountPassed(layers, n - 1) + (IF layers[n].bound_satisfied THEN 1 ELSE 0)

\* the pass/fail byte of the digest
PassByteLayersOnly(report) == IF report.all_bounds_satisfied THEN 1 ELSE 0
PassByte(report) ==
    IF report.all_bounds_satisfied /\ report.total_bound_satisfied THEN 1 ELSE 0

cq_verification_digest_generate(report, layers) ==
    [ verification_set_hash    |-> report.verification_set_hash,
      sample_count             |-> report.sample_count,
      layers_passed            |-> CountPassed(layers, report.layer_count),
      total_error_theoretical  |-> report.total_error_theoretical,
      total_error_max_measured |-> report.total_error_max_measured,
      bounds_satisfied         |-> PassByte(report) ]

cq_verify_passed(report) ==
    report.all_bounds_satisfied /\ report.total_bound_satisfied

(***************************************************************************)
(* The verifier's operations as the driver may call them                   *)
(***************************************************************************)
NumLayers == 2          \* layers of the verified model
MaxBound == 1           \* theoretical bounds are 0..MaxBound
MaxError == 2           \* error samples are 0..MaxError
MaxSamples == 2         \* update calls in one verification run

Layers == 1..NumLayers

\* a report initialised by cq_layer_comparison_init for each layer and
\* cq_verification_report_init, for any bounds the analyzer may hand over
VerInit ==
    /\ \E bounds \in [Layers -> 0..MaxBound] :
          ver_layers = [i \in Layers |-> cq_layer_comparison_init(i - 1, bounds[i])]
    /\ \E total_bound \in 0..MaxBound :
          ver_report = cq_verification_report_init(NumLayers, total_bound)
    /\ ver_faults = cq_fault_clear
    /\ ver_rc = NotCalled
    /\ ver_digest = <<>>
    /\ ver_fed = [k \in Layers \cup {0} |-> {}]
    /\ ver_checked = FALSE

\* the verifier's variables when another component is being explored
VerIdle ==
    /\ ver_layers = [i \in Layers |-> cq_layer_comparison_init(i - 1, 0)]
    /\ ver_report = cq_verification_report_init(NumLayers, 0)
    /\ ver_faults = cq_fault_clear
    /\ ver_rc = NotCalled
    /\ ver_digest = <<>>
    /\ ver_fed = [k \in Layers \cup {0} |-> {}]
    /\ ver_checked = FALSE

RECURSIVE CountSamples(_, _)
CountSamples(layers, n) ==
    IF n = 0 THEN 0 ELSE CountSamples(layers, n - 1) + layers[n].sample_count

UpdatesDone ==
    ver_report.sample_count
      + CountSamples(ver_layers, NumLayers) >= MaxSamples

VerRunning == ver_digest = <<>>

LayerUpdate ==
    /\ VerRunning
    /\ ~UpdatesDone
    /\ \E i \in Layers, e \in 0..MaxError :
          /\ ver_layers' = [ver_layers EXCEPT ![i] = cq_verify_layer_update(@, e)]
          /\ ver_fed' = [ver_fed EXCEPT ![i] = @ \cup {e}]
    /\ ver_checked' = FALSE
    /\ UNCHANGED <<ver_report, ver_faults, ver_rc, ver_digest>>
    /\ UNCHANGED nonVer

TotalUpdate ==
    /\ VerRunning
    /\ ~UpdatesDone
    /\ \E e \in 0..MaxError :
          /\ ver_report' = cq_verify_total_update(ver_report, e)
          /\ ver_fed' = [ver_fed EXCEPT ![0] = @ \cup {e}]
    /\ ver_checked' = FALSE
    /\ UNCHANGED <<ver_layers, ver_faults, ver_rc, ver_digest>>
    /\ UNCHANGED nonVer

\* cq_verify_check_all_bounds with a cleared fault set
CheckAllBounds ==
    /\ VerRunning
    /\ LET r == cq_verify_check_all_bounds(ver_report, ver_layers, cq_fault_clear)
       IN  /\ ver_report' = r.report
           /\ ver_layers' = r.layers
           /\ ver_faults' = r.faults
           /\ ver_rc' = <<r.rc>>
    /\ ver_checked' = TRUE
    /\ UNCHANGED <<ver_digest, ver_fed>>
    /\ UNCHANGED nonVer

\* the digest ends the run: the notary consumes it
DigestGenerate ==
    /\ VerRunning
    /\ ver_digest' = <<cq_verification_digest_generate(ver_report, ver_layers)>>
    /\ UNCHANGED <<ver_layers, ver_report, ver_faults, ver_rc, ver_fed, ver_checked>>
    /\ UNCHANGED nonVer

NextVer ==
    \/ LayerUpdate
    \/ TotalUpdate
    \/ CheckAllBounds
    \/ DigestGenerate

(***************************************************************************)
(* calibrate.c: statistics, coverage, range veto, report                   *)
(* A float is a number of grid units; FLT_MAX is a value above every       *)
(* observation and every safe limit, and the two values above it stand for *)
(* infinity and NaN.  A ratio of floats is kept exactly, as <<numerator,   *)
(* denominator>> with a positive denominator.                              *)
(***************************************************************************)
FLT_MAX == 1000
INFINITY == FLT_MAX + 1
NAN == FLT_MAX + 2

isnan(v) == v = NAN
isinf(v) == v = INFINITY \/ v = -INFINITY

fabsf(v) == IF v < 0 THEN -v ELSE v

\* the exact quotient a / b of two floats, b # 0
Ratio(a, b) == IF b < 0 THEN <<-a, -b>> ELSE <<a, b>>
RatLess(p, q) == p[1] * q[2] < q[1] * p[2]
RatAdd(p, q) == <<p[1] * q[2] + q[1] * p[2], p[2] * q[2]>>

\* CQ_CALIBRATE_CONFIG_DEFAULT; degenerate_epsilon is below one grid unit
CQ_CALIBRATE_CONFIG_DEFAULT ==
    [ coverage_min_threshold |-> <<90, 100>>,
      coverage_p10_threshold |-> <<95, 100>>,
      degenerate_epsilon     |-> 1,
      min_samples            |-> 100 ]

cq_tensor_stats_init(tensor_id, layer_index, min_safe, max_safe) ==
    [ tensor_id      |-> tensor_id,
      layer_index    |-> layer_index,
      min_observed   |-> FLT_MAX,
      max_observed   |-> -FLT_MAX,
      min_safe       |-> min_safe,
      max_safe       |-> max_safe,
      coverage_ratio |-> <<0, 1>>,
      is_degenerate  |-> FALSE,
      range_veto     |-> FALSE ]

UpdateSingleNoSkip(stats, value) ==
    [stats EXCEPT
        !.min_observed = IF value < @ THEN value ELSE @,
        !.max_observed = IF value > @ THEN value ELSE @]

cq_tensor_stats_update_single(stats, value) ==
    IF isnan(value) \/ isinf(value) THEN stats
    ELSE [stats EXCEPT
            !.min_observed = IF value < @ THEN value ELSE @,
            !.max_observed = IF value > @ THEN value ELSE @]

RECURSIVE cq_tensor_stats_update(_, _)
\* the loop over tensor[0..n-1]; an empty batch leaves the statistics
cq_tensor_stats_update(stats, tensor) ==
    IF tensor = <<>> THEN stats
    ELSE cq_tensor_stats_update(
            cq_tensor_stats_update_single(stats, Head(tensor)), Tail(tensor))

cq_tensor_compute_coverage(stats, config) ==
    LET observed_range == stats.max_observed - stats.min_observed
        safe_range     == stats.max_safe - stats.min_safe
    IN  IF \/ fabsf(observed_range) < config.degenerate_epsilon
           \/ fabsf(safe_range) < config.degenerate_epsilon
        THEN [stats EXCEPT !.is_degenerate = TRUE, !.coverage_ratio = <<1, 1>>]
        ELSE [stats EXCEPT !.is_degenerate = FALSE,
                           !.coverage_ratio = Ratio(observed_range, safe_range)]

\* the test that decides the veto of one tensor
OutsideSafe(stats) ==
    \/ stats.min_observed < stats.min_safe
    \/ stats.max_observed > stats.max_safe
OutsideOrOnBoundary(stats) ==
    \/ stats.min_observed <= stats.min_safe
    \/ stats.max_observed >= stats.max_safe
RangeViolated(stats) == OutsideSafe(stats)

cq_tensor_check_range_veto(stats) ==
    [ veto  |-> RangeViolated(stats),
      stats |-> [stats EXCEPT !.range_veto = RangeViolated(stats)] ]

cq_calibration_report_init(tensor_count) ==
    [ sample_count            |-> 0,
      tensor_count            |-> tensor_count,
      global_coverage_min     |-> <<0, 1>>,
      global_coverage_p10     |-> <<0, 1>>,
      global_coverage_mean    |-> <<0, 1>>,
      range_veto_triggered    |-> FALSE,
      coverage_veto_triggered |-> FALSE,
      faults                  |-> cq_fault_clear ]

cq_calibration_report_add_sample(report) ==
    [report EXCEPT !.sample_count = @ + 1]

RECURSIVE CoverageSum(_, _)
CoverageSum(tensors, n) ==
    IF n = 0 THEN <<0, 1>>
    ELSE RatAdd(CoverageSum(tensors, n - 1), tensors[n].coverage_ratio)

\* the least coverage ratio of tensors 1..n
CoverageMin(tensors, n) ==
    LET i == CHOOSE i \in 1..n :
                 \A j \in 1..n :
                     ~RatLess(tensors[j].coverage_ratio, tensors[i].coverage_ratio)
    IN  tensors[i].coverage_ratio

\* coverages[idx] after qsort ascending (idx counted from 0)
CoverageSorted(tensors, n, idx) ==
    LET i == CHOOSE i \in 1..n :
                 LET c == tensors[i].coverage_ratio
                     below == Cardinality({j \in 1..n :
                                  RatLess(tensors[j].coverage_ratio, c)})
                     upto  == Cardinality({j \in 1..n :
                                  ~RatLess(c, tensors[j].coverage_ratio)})
                 IN  below <= idx /\ idx < upto
    IN  tensors[i].coverage_ratio

cq_calibration_compute_global_coverage(report, tensors, malloc_ok) ==
    LET n == report.tensor_count
        sum == CoverageSum(tensors, n)
        p10_idx == IF n \div 10 >= n THEN n - 1 ELSE n \div 10
    IN  IF n = 0 THEN report
        ELSE [report EXCEPT
                !.global_coverage_mean = <<sum[1], sum[2] * n>>,
                !.global_coverage_min = CoverageMin(tensors, n),
                !.global_coverage_p10 = IF malloc_ok
                                        THEN CoverageSorted(tensors, n, p10_idx)
                                        ELSE CoverageMin(tensors, n)]

CoverageNeverVetoed(report, config) == FALSE

cq_calibration_check_coverage_threshold(report, config) ==
    \/ RatLess(report.global_coverage_min, config.coverage_min_threshold)
    \/ RatLess(report.global_coverage_p10, config.coverage_p10_threshold)

RECURSIVE FinalizeTensorsFrom(_, _, _)
\* the loop "for (i = 0; i < report->tensor_count; i++)" of
\* cq_calibration_report_finalize from tensor i on
FinalizeTensorsFrom(i, st, config) ==
    IF i > st.report.tensor_count THEN st
    ELSE LET t == cq_tensor_compute_coverage(st.tensors[i], config)
             r == cq_tensor_check_range_veto(t)
         IN  FinalizeTensorsFrom(i + 1,
                [ report  |-> IF r.veto
                              THEN [st.report EXCEPT !.range_veto_triggered = TRUE]
                              ELSE st.report,
                  tensors |-> [st.tensors EXCEPT ![i] = r.stats],
                  faults  |-> IF r.veto THEN st.faults \cup {"range_exceed"}
                              ELSE st.faults ],
                config)

cq_calibration_report_finalize(report, tensors, config, faults, malloc_ok) ==
    LET st  == FinalizeTensorsFrom(1,
                  [report |-> report, tensors |-> tensors, faults |-> faults],
                  config)
        r1  == cq_calibration_compute_global_coverage(st.report, st.tensors, malloc_ok)
        r2  == IF cq_calibration_check_coverage_threshold(r1, config)
               THEN [r1 EXCEPT !.coverage_veto_triggered = TRUE]
               ELSE r1
    IN  [ rc      |-> 0,
          report  |-> [r2 EXCEPT !.faults = cq_fault_merge(r2.faults, st.faults)],
          tensors |-> st.tensors,
          faults  |-> st.faults ]

cq_calibration_passed(report) == ~report.range_veto_triggered

\* dataset_hash is zeroed by cq_calibration_report_init and written by no
\* function of the calibrator
cq_calibration_digest_generate(report) ==
    [ dataset_hash         |-> 0,
      sample_count         |-> report.sample_count,
      tensor_count         |-> report.tensor_count,
      global_coverage_min  |-> report.global_coverage_min,
      global_coverage_p10  |-> report.global_coverage_p10,
      range_veto_status    |-> IF report.range_veto_triggered THEN 1 ELSE 0,
      coverage_veto_status |-> IF report.coverage_veto_triggered THEN 1 ELSE 0 ]

(***************************************************************************)
(* The calibrator's operations as the driver may call them                 *)
(***************************************************************************)
NumTensors == 2         \* tensors of the calibrated model
MaxObs == 2             \* finite observations are -MaxObs..MaxObs
MaxCalOps == 2          \* update and add_sample calls in one calibration

Tensors == 1..NumTensors

\* the safe limits leave room for an observation beyond them
SafeLimits == {0, MaxObs - 1}

Observations == (-MaxObs..MaxObs) \cup {-INFINITY, NAN}

\* the batches fed at once: values around zero, the greater first, with a
\* NaN and an infinity among them
Batches == {<<v, NAN, -v, INFINITY>> : v \in 1..MaxObs} \cup {<<>>}

\* the least and greatest finite value fed to a tensor so far, <<>> if none:
\* seen is that pair before the values of the sequence fed are added
Seen(seen, fed) ==
    LET fin == {fed[k] : k \in DOMAIN fed} \ {NAN, INFINITY, -INFINITY}
        all == fin \cup {seen[k] : k \in DOMAIN seen}
    IN  IF all = {} THEN <<>>
        ELSE << CHOOSE lo \in all : \A v \in all : lo <= v,
                CHOOSE hi \in all : \A v \in all : hi >= v >>

CalInit ==
    /\ \E lim \in [Tensors -> SafeLimits] :
          cal_tensors = [i \in Tensors |->
                            cq_tensor_stats_init(i - 1, i - 1, -lim[i], lim[i])]
    /\ cal_report = cq_calibration_report_init(NumTensors)
    /\ cal_faults = cq_fault_clear
    /\ cal_rc = NotCalled
    /\ cal_ops = 0
    /\ cal_final = FALSE
    /\ cal_seen = [i \in Tensors |-> <<>>]
    /\ cal_digest = <<>>

CalIdle ==
    /\ cal_tensors = [i \in Tensors |-> cq_tensor_stats_init(i - 1, i - 1, 0, 0)]
    /\ cal_report = cq_calibration_report_init(NumTensors)
    /\ cal_faults = cq_fault_clear
    /\ cal_rc = NotCalled
    /\ cal_ops = 0
    /\ cal_final = FALSE
    /\ cal_seen = [i \in Tensors |-> <<>>]
    /\ cal_digest = <<>>

\* the digest is the last thing a calibration produces
CalRunning == cal_digest = <<>>

TensorUpdateSingle ==
    /\ CalRunning
    /\ cal_ops < MaxCalOps
    /\ \E i \in Tensors, v \in Observations :
          /\ cal_tensors' = [cal_tensors EXCEPT
                                ![i] = cq_tensor_stats_update_single(@, v)]
          /\ cal_seen' = [cal_seen EXCEPT ![i] = Seen(@, <<v>>)]
    /\ cal_ops' = cal_ops + 1
    /\ cal_final' = FALSE
    /\ UNCHANGED <<cal_report, cal_faults, cal_rc, cal_digest>>
    /\ UNCHANGED nonCal

TensorUpdate ==
    /\ CalRunning
    /\ cal_ops < MaxCalOps
    /\ \E i \in Tensors, tensor \in Batches :
          /\ cal_tensors' = [cal_tensors EXCEPT
                                ![i] = cq_tensor_stats_update(@, tensor)]
          /\ cal_seen' = [cal_seen EXCEPT ![i] = Seen(@, tensor)]
    /\ cal_ops' = cal_ops + 1
    /\ cal_final' = FALSE
    /\ UNCHANGED <<cal_report, cal_faults, cal_rc, cal_digest>>
    /\ UNCHANGED nonCal

AddSample ==
    /\ CalRunning
    /\ cal_ops < MaxCalOps
    /\ cal_report' = cq_calibration_report_add_sample(cal_report)
    /\ cal_ops' = cal_ops + 1
    /\ cal_final' = FALSE
    /\ UNCHANGED <<cal_tensors, cal_faults, cal_rc, cal_seen, cal_digest>>
    /\ UNCHANGED nonCal

\* cq_calibration_report_finalize with the default configuration and a
\* cleared fault set; malloc may fail
Finalize ==
    /\ CalRunning
    /\ \E malloc_ok \in BOOLEAN :
          LET r == cq_calibration_report_finalize(cal_report, cal_tensors,
                       CQ_CALIBRATE_CONFIG_DEFAULT, cq_fault_clear, malloc_ok)
          IN  /\ cal_report' = r.report
              /\ cal_tensors' = r.tensors
              /\ cal_faults' = r.faults
              /\ cal_rc' = <<r.rc>>
    /\ cal_final' = TRUE
    /\ UNCHANGED <<cal_ops, cal_seen, cal_digest>>
    /\ UNCHANGED nonCal

CalDigestGenerate ==
    /\ CalRunning
    /\ cal_digest' = <<cq_calibration_digest_generate(cal_report)>>
    /\ UNCHANGED <<cal_tensors, cal_report, cal_faults, cal_rc, cal_ops,
                   cal_final, cal_seen>>
    /\ UNCHANGED nonCal

NextCal ==
    \/ TensorUpdateSingle
    \/ TensorUpdate
    \/ AddSample
    \/ Finalize
    \/ CalDigestGenerate

(***************************************************************************)
(* analyze.c, primitives.c: the accumulator overflow proof                 *)
(* The machine words are scaled down: a "uint32_t" has WordBits bits and   *)
(* a "uint64_t" twice as many, so that 2^63 is half the range of the wide  *)
(* word as in the code, and every product of three narrow values is a      *)
(* number the checker can hold.                                            *)
(***************************************************************************)
WordBits == 4           \* bits of the narrow word (32 in the code)

RECURSIVE Pow2(_)
Pow2(k) == IF k = 0 THEN 1 ELSE 2 * Pow2(k - 1)

UINT32_MAX == Pow2(WordBits) - 1
UINT64_MAX == Pow2(2 * WordBits) - 1

\* (uint64_t)1 << 63
OverflowLimitUnsigned == Pow2(2 * WordBits)
OverflowLimit == Pow2(2 * WordBits - 1)

\* the product of two uint64_t as the machine computes it
Mul64(a, b) == (a * b) % (UINT64_MAX + 1)

\* the guard before a multiplication: the product would not fit
NoOverflowGuard(a, b) == FALSE
MulWouldOverflow(a, b) == b > UINT64_MAX \div a

cq_compute_overflow_proof(max_weight_mag, max_input_mag, dot_product_len) ==
    LET n == dot_product_len
        w == max_weight_mag
        x == max_input_mag
        proof0 == [ max_weight_mag  |-> max_weight_mag,
                    max_input_mag   |-> max_input_mag,
                    dot_product_len |-> dot_product_len,
                    safety_margin   |-> 0,
                    is_safe         |-> FALSE ]
        unsafe(wrapped) == [ rc |-> FALSE, wrapped |-> wrapped,
                             proof |-> [proof0 EXCEPT !.safety_margin = 0,
                                                      !.is_safe = FALSE] ]
        nw == Mul64(n, w)
        product == Mul64(nw, x)
        wrapped == n * w > UINT64_MAX \/ nw * x > UINT64_MAX
    IN  IF n = 0 \/ w = 0 \/ x = 0
        THEN [ rc |-> TRUE, wrapped |-> FALSE,
               proof |-> [proof0 EXCEPT !.safety_margin = OverflowLimit,
                                        !.is_safe = TRUE] ]
        ELSE IF MulWouldOverflow(n, w) THEN unsafe(FALSE)
        ELSE IF MulWouldOverflow(nw, x) THEN unsafe(n * w > UINT64_MAX)
        ELSE IF product < OverflowLimit
        THEN [ rc |-> TRUE, wrapped |-> wrapped,
               proof |-> [proof0 EXCEPT !.safety_margin = OverflowLimit - product,
                                        !.is_safe = TRUE] ]
        ELSE unsafe(wrapped)

cq_overflow_is_safe(proof) ==
    IF proof.dot_product_len = 0 THEN TRUE
    ELSE LET product == Mul64(Mul64(proof.dot_product_len, proof.max_weight_mag),
                              proof.max_input_mag)
         IN  product < OverflowLimit

(***************************************************************************)
(* The overflow proof's operations as the driver may call them             *)
(***************************************************************************)
Magnitudes == 0..UINT32_MAX

OvfInit ==
    /\ ovf_proof = UNINIT
    /\ ovf_rc = NotCalled
    /\ ovf_wrapped = FALSE
    /\ ovf_pre = NotCalled

\* the proof of a layer is computed once
ComputeOverflowProof ==
    /\ ovf_proof = UNINIT
    /\ \E w, x, n \in Magnitudes :
          LET r == cq_compute_overflow_proof(w, x, n)
          IN  /\ ovf_proof' = r.proof
              /\ ovf_rc' = <<r.rc>>
              /\ ovf_wrapped' = r.wrapped
    /\ ovf_pre' = NotCalled
    /\ UNCHANGED nonOvf

OverflowIsSafe ==
    /\ ovf_proof # UNINIT
    /\ ovf_pre' = <<cq_overflow_is_safe(ovf_proof)>>
    /\ UNCHANGED <<ovf_proof, ovf_rc, ovf_wrapped>>
    /\ UNCHANGED nonOvf

NextOvf ==
    \/ ComputeOverflowProof
    \/ OverflowIsSafe

(***************************************************************************)
(* analyze.c: error recurrence, layer contracts, analysis context          *)
(* A double is an exact rational <<numerator, denominator>> in lowest      *)
(* terms with a positive denominator; rounding is not modelled.            *)
(***************************************************************************)
RECURSIVE Gcd(_, _)
Gcd(a, b) == IF b = 0 THEN a ELSE Gcd(b, a % b)

RatNorm(p) ==
    LET g == Gcd(fabsf(p[1]), p[2])
    IN  <<p[1] \div g, p[2] \div g>>
RatSum(p, q) == RatNorm(RatAdd(p, q))
RatMul(p, q) == RatNorm(<<p[1] * q[1], p[2] * q[2]>>)
\* p / q for q > 0
RatDiv(p, q) == RatNorm(<<p[1] * q[2], p[2] * q[1]>>)
RatLeq(p, q) == ~RatLess(q, p)

\* memset(proof, 0, sizeof)
ZeroProof ==
    [ max_weight_mag  |-> 0,
      max_input_mag   |-> 0,
      dot_product_len |-> 0,
      safety_margin   |-> 0,
      is_safe         |-> FALSE ]

\* the ranges of the contract, which none of these operations reads or
\* writes, are left out
cq_layer_contract_init(layer_index, layer_type, fan_in, fan_out) ==
    [ layer_index          |-> layer_index,
      layer_type           |-> layer_type,
      fan_in               |-> fan_in,
      fan_out              |-> fan_out,
      amp_factor           |-> <<1, 1>>,
      weight_error_contrib |-> <<0, 1>>,
      bias_error_contrib   |-> <<0, 1>>,
      projection_error     |-> <<0, 1>>,
      local_error_sum      |-> <<0, 1>>,
      input_error_bound    |-> <<0, 1>>,
      output_error_bound   |-> <<0, 1>>,
      overflow_proof       |-> ZeroProof,
      is_valid             |-> FALSE ]

cq_compute_error_contributions(contract, weight_scale, output_scale, max_input_norm) ==
    IF ~RatLess(<<0, 1>>, weight_scale) \/ ~RatLess(<<0, 1>>, output_scale)
    THEN contract
    ELSE LET weight_err == RatMul(RatDiv(<<1, 2>>, weight_scale), max_input_norm)
             bias_err   == RatDiv(<<1, 2>>, RatMul(weight_scale, weight_scale))
             proj_err   == RatDiv(<<1, 2>>, output_scale)
         IN  [contract EXCEPT
                !.weight_error_contrib = weight_err,
                !.bias_error_contrib = bias_err,
                !.projection_error = proj_err,
                !.local_error_sum = RatSum(RatSum(weight_err, bias_err), proj_err)]

\* the right-hand side of the recurrence
RecurrenceLocalOnly(amp_factor, input_error_bound, local_error_sum) ==
    local_error_sum
RecurrenceOutput(amp_factor, input_error_bound, local_error_sum) ==
    RatSum(RatMul(amp_factor, input_error_bound), local_error_sum)

cq_apply_error_recurrence(contract, input_error_bound) ==
    [contract EXCEPT
        !.input_error_bound = input_error_bound,
        !.output_error_bound = RecurrenceOutput(contract.amp_factor,
                                   input_error_bound, contract.local_error_sum),
        !.is_valid = TRUE]

cq_compute_entry_error(input_scale_exp) ==
    RatDiv(<<1, 2>>, <<Pow2(input_scale_exp), 1>>)

cq_analysis_ctx_init(layer_count, input_scale_exp) ==
    [ entry_error       |-> cq_compute_entry_error(input_scale_exp),
      input_scale_exp   |-> input_scale_exp,
      layer_count       |-> layer_count,
      total_error_bound |-> <<0, 1>>,
      is_complete       |-> FALSE,
      is_valid          |-> FALSE,
      faults            |-> cq_fault_clear ]

cq_compute_total_error(ctx, layers) ==
    IF ctx.layer_count = 0
    THEN [ rc |-> 0,
           ctx |-> [ctx EXCEPT !.total_error_bound = ctx.entry_error,
                               !.is_complete = TRUE,
                               !.is_valid = TRUE] ]
    ELSE [ rc |-> 0,
           ctx |-> [ctx EXCEPT
                      !.total_error_bound = layers[ctx.layer_count].output_error_bound,
                      !.is_valid = \A i \in 1..ctx.layer_count : layers[i].is_valid,
                      !.is_complete = TRUE] ]

cq_analysis_passed(ctx) ==
    ctx.is_complete /\ ctx.is_valid /\ ~cq_has_fatal_fault(ctx.faults)

(***************************************************************************)
(* The analyzer's operations as the driver may call them: the layers are   *)
(* analysed in order, each by its amplification factor, its overflow       *)
(* proof (a call the driver may leave out), its error contributions and    *)
(* the recurrence fed with the previous layer's output bound               *)
(***************************************************************************)
MaxAnaLayers == 2       \* layers of the analysed model
MaxExp == 1             \* scale exponents are 0..MaxExp (0..31 in the code)

AnaLayers == 1..MaxAnaLayers

\* operator norm bounds, below and above 1
AmpFactors == { <<1, 2>>, <<1, 1>>, <<3, 2>> }

Scales == { <<Pow2(e), 1>> : e \in 0..MaxExp }

\* magnitudes and fan-in of safe and of unsafe accumulators
ProofInputs ==
    { <<1, 1, 1>>, <<UINT32_MAX, 0, UINT32_MAX>>,
      <<UINT32_MAX, UINT32_MAX, 2>>, <<UINT32_MAX, UINT32_MAX, UINT32_MAX>> }

\* the driver of the overflow proofs: every proof outcome, a call left out
\* included, on layers of one shape
ProofDriver ==
    [ amps       |-> { <<1, 1>> },
      scales     |-> { <<1, 1>> },
      norms      |-> { <<0, 1>>, <<1, 1>> },
      proofs     |-> ProofInputs,
      skip_proof |-> TRUE ]

\* the driver of the error chain: every amplification factor and scale, on
\* layers whose proof is safe
ErrorDriver ==
    [ amps       |-> AmpFactors,
      scales     |-> Scales,
      norms      |-> { <<1, 1>> },
      proofs     |-> { <<1, 1, 1>> },
      skip_proof |-> FALSE ]

AnaInit(driver) ==
    /\ ana_layers = [i \in AnaLayers |-> cq_layer_contract_init(i - 1, 0, 1, 1)]
    /\ \E layer_count \in 0..MaxAnaLayers, e \in 0..MaxExp :
          ana_ctx = cq_analysis_ctx_init(layer_count, e)
    /\ ana_pos = 1
    /\ ana_phase = "amp"
    /\ ana_rc = NotCalled
    /\ ana_inputs = driver

AnaIdle ==
    /\ ana_layers = [i \in AnaLayers |-> cq_layer_contract_init(i - 1, 0, 1, 1)]
    /\ ana_ctx = cq_analysis_ctx_init(0, 0)
    /\ ana_pos = 1
    /\ ana_phase = "amp"
    /\ ana_rc = NotCalled
    /\ ana_inputs = ProofDriver

AnaBusy == ana_pos <= ana_ctx.layer_count

\* the caller stores the operator norm bound into the contract
SetAmpFactor ==
    /\ AnaBusy
    /\ ana_phase = "amp"
    /\ \E a \in ana_inputs.amps :
          ana_layers' = [ana_layers EXCEPT ![ana_pos].amp_factor = a]
    /\ ana_phase' = "proof"
    /\ UNCHANGED <<ana_ctx, ana_pos, ana_rc, ana_inputs>>
    /\ UNCHANGED nonAna

ComputeLayerProof ==
    /\ AnaBusy
    /\ ana_phase = "proof"
    /\ \E in \in ana_inputs.proofs :
          ana_layers' = [ana_layers EXCEPT ![ana_pos].overflow_proof =
                            cq_compute_overflow_proof(in[1], in[2], in[3]).proof]
    /\ ana_phase' = "contrib"
    /\ UNCHANGED <<ana_ctx, ana_pos, ana_rc, ana_inputs>>
    /\ UNCHANGED nonAna

ComputeErrorContributions ==
    /\ AnaBusy
    /\ \/ ana_phase = "contrib"
       \/ ana_phase = "proof" /\ ana_inputs.skip_proof
    /\ \E ws, os \in ana_inputs.scales, norm \in ana_inputs.norms :
          ana_layers' = [ana_layers EXCEPT ![ana_pos] =
                            cq_compute_error_contributions(@, ws, os, norm)]
    /\ ana_phase' = "recur"
    /\ UNCHANGED <<ana_ctx, ana_pos, ana_rc, ana_inputs>>
    /\ UNCHANGED nonAna

ApplyErrorRecurrence ==
    /\ AnaBusy
    /\ ana_phase = "recur"
    /\ ana_layers' = [ana_layers EXCEPT ![ana_pos] =
                          cq_apply_error_recurrence(@,
                              IF ana_pos = 1 THEN ana_ctx.entry_error
                              ELSE ana_layers[ana_pos - 1].output_error_bound)]
    /\ ana_pos' = ana_pos + 1
    /\ ana_phase' = "amp"
    /\ UNCHANGED <<ana_ctx, ana_rc, ana_inputs>>
    /\ UNCHANGED nonAna

ComputeTotalError ==
    /\ ana_phase = "amp"
    /\ LET r == cq_compute_total_error(ana_ctx, ana_layers)
       IN  /\ ana_ctx' = r.ctx
           /\ ana_rc' = <<r.rc>>
    /\ UNCHANGED <<ana_layers, ana_pos, ana_phase, ana_inputs>>
    /\ UNCHANGED nonAna

NextAna ==
    \/ SetAmpFactor
    \/ ComputeLayerProof
    \/ ComputeErrorContributions
    \/ ApplyErrorRecurrence
    \/ ComputeTotalError

(***************************************************************************)
(* The notary's operations as the driver may call them                     *)
(***************************************************************************)
\* the builder's setters
Setters ==
    {"version", "source_hash", "bn_info", "analysis", "calibration",
     "verification", "target", "format"}

\* no setter called since cq_certificate_builder_init
NoCalls == [last |-> [s \in Setters |-> <<>>], nonnull |-> {}]

CertInit ==
    /\ builder = cq_certificate_builder_init
    /\ cert = UNINIT
    /\ build_rc = NotCalled
    /\ build_faults = cq_fault_clear
    /\ buffer = UNINIT
    /\ buf_size = NotCalled
    /\ cert_restored = UNINIT
    /\ deser_rc = NotCalled
    /\ tampered = -1
    /\ cert_calls = NoCalls

\* the builder is filled before the certificate is built
Building == build_rc # <<0>>

\* a setter call: the builder it leaves, and the history of the calls.
\* args holds the call's arguments; a call changes the builder unless a
\* pointer argument it requires is NULL.
SetBuilder(b, setter, args, effective, nonnull) ==
    /\ Building
    /\ builder' = b
    /\ cert_calls' =
          [last |-> IF effective
                    THEN [cert_calls.last EXCEPT ![setter] = <<args>>]
                    ELSE cert_calls.last,
           nonnull |-> IF nonnull THEN cert_calls.nonnull \cup {setter}
                       ELSE cert_calls.nonnull]
    /\ UNCHANGED <<cert, build_rc, build_faults, buffer, buf_size,
                   cert_restored, deser_rc, tampered>>
    /\ UNCHANGED nonCert

SetVersion ==
    SetBuilder(cq_certificate_builder_set_version(builder, 1, 0, 0, 0),
               "version", <<1, 0, 0, 0>>, TRUE, TRUE)

SetSourceHash ==
    \E h \in HashArgs \cup {NULL} :
        SetBuilder(cq_certificate_builder_set_source_hash(builder, h),
                   "source_hash", <<h>>, h # NULL, h # NULL)

\* BN folded with the hash of its record, or no BN layer and no hash
BnInfoArgs == {<<TRUE, h>> : h \in HashArgs} \cup {<<FALSE, NULL>>}

SetBnInfo ==
    \E a \in BnInfoArgs :
        SetBuilder(cq_certificate_builder_set_bn_info(builder, a[1], a[2]),
                   "bn_info", a, TRUE, a[2] # NULL)

SetAnalysis ==
    \E d \in {<<x>> : x \in AnalysisDigests} \cup {NULL} :
        SetBuilder(cq_certificate_builder_set_analysis(builder, d),
                   "analysis", <<d>>, d # NULL, d # NULL)

SetCalibration ==
    \E d \in {<<x>> : x \in CalibrationDigests} \cup {NULL} :
        SetBuilder(cq_certificate_builder_set_calibration(builder, d),
                   "calibration", <<d>>, d # NULL, d # NULL)

SetVerification ==
    \E d \in {<<x>> : x \in VerificationDigests} \cup {NULL} :
        SetBuilder(cq_certificate_builder_set_verification(builder, d),
                   "verification", <<d>>, d # NULL, d # NULL)

SetTarget ==
    \E h \in HashArgs \cup {NULL} :
        SetBuilder(cq_certificate_builder_set_target(builder, h, 100000, 5),
                   "target", <<h, 100000, 5>>, h # NULL, h # NULL)

SetFormat ==
    \E f \in FormatTags :
        SetBuilder(cq_certificate_builder_set_format(builder, f),
                   "format", <<f>>, TRUE, TRUE)

Build ==
    /\ Building
    /\ \E now \in Timestamps, null_arg \in BOOLEAN :
          LET r == cq_certificate_build(builder, cert, build_faults, now, null_arg)
          IN  /\ build_rc' = <<r.rc>>
              /\ cert' = r.cert
              /\ build_faults' = r.faults
    /\ UNCHANGED <<builder, buffer, buf_size, cert_restored, deser_rc, tampered,
                   cert_calls>>
    /\ UNCHANGED nonCert

Serialise ==
    /\ build_rc = <<0>>
    /\ tampered = -1
    /\ buf_size = NotCalled
    /\ LET r == cq_certificate_serialise(cert)
       IN  /\ buffer' = r.buffer
           /\ buf_size' = <<r.size>>
    /\ UNCHANGED <<builder, cert, build_rc, build_faults, cert_restored,
                   deser_rc, tampered, cert_calls>>
    /\ UNCHANGED nonCert

Deserialise ==
    /\ buf_size # NotCalled
    /\ deser_rc = NotCalled
    /\ LET r == cq_certificate_deserialise(buffer, buf_size[1], cert_restored)
       IN  /\ deser_rc' = <<r.rc>>
           /\ cert_restored' = r.cert
    /\ UNCHANGED <<builder, cert, build_rc, build_faults, buffer, buf_size,
                   tampered, cert_calls>>
    /\ UNCHANGED nonCert

\* a cell holding a byte other than the one cell c holds
OtherByte(c) == IF c = <<0>> THEN <<255>> ELSE <<0>>

\* Someone changes one byte of the content of an issued certificate.
Tamper ==
    /\ build_rc = <<0>>
    /\ tampered = -1
    /\ buf_size = NotCalled
    /\ \E o \in 0..(OFF_merkle_root - 1) :
          /\ cert' = [cert EXCEPT ![o] = OtherByte(cert[o])]
          /\ tampered' = o
    /\ UNCHANGED <<builder, build_rc, build_faults, buffer, buf_size,
                   cert_restored, deser_rc, cert_calls>>
    /\ UNCHANGED nonCert

NextCert ==
    \/ SetVersion
    \/ SetSourceHash
    \/ SetBnInfo
    \/ SetAnalysis
    \/ SetCalibration
    \/ SetVerification
    \/ SetTarget
    \/ SetFormat
    \/ Build
    \/ Serialise
    \/ Deserialise
    \/ Tamper

(***************************************************************************)
(* primitives.c: saturation, RNE rounding, Q16.16 division                 *)
(* An int32_t is a signed word of WordBits bits and an int64_t one of      *)
(* 2 * WordBits bits; a Q16.16 value has WordBits \div 2 fraction bits.    *)
(* Each operation returns its value, the caller's fault flags after the    *)
(* call, and the values of the signed 64-bit expressions it evaluated.     *)
(***************************************************************************)
INT32_MAX == Pow2(WordBits - 1) - 1
INT32_MIN == -Pow2(WordBits - 1)
INT64_MAX == Pow2(2 * WordBits - 1) - 1
INT64_MIN == -Pow2(2 * WordBits - 1)

Int32 == INT32_MIN..INT32_MAX
Int64 == INT64_MIN..INT64_MAX

\* 16 in the code: half of the narrow word
CQ_Q16_SHIFT == WordBits \div 2

\* 62 in the code: the largest shift whose divisor 1 << shift is an int64_t
MaxShift == 2 * WordBits - 2

\* C's / and % on signed integers: truncation toward zero, the remainder
\* has the sign of the dividend
Abs(v) == IF v < 0 THEN -v ELSE v
CDiv(a, b) ==
    IF (a < 0) = (b < 0) THEN Abs(a) \div Abs(b) ELSE -(Abs(a) \div Abs(b))
FloorRem(a, b) == a % b
CRem(a, b) == a - b * CDiv(a, b)

\* quot & 1 on a two's complement word
LowBit(v) == v % 2

cq_clamp32(x, faults) ==
    IF x > INT32_MAX
    THEN [value |-> INT32_MAX, faults |-> faults \cup {"overflow"},
          evaluated |-> {}]
    ELSE IF x < INT32_MIN
    THEN [value |-> INT32_MIN, faults |-> faults \cup {"underflow"},
          evaluated |-> {}]
    ELSE [value |-> x, faults |-> faults, evaluated |-> {}]

\* the guards of cq_add64_sat; && evaluates its right operand only when the
\* left one holds
AddNeverOverflows(a, b) == FALSE
AddOverflows(a, b) == b > 0 /\ a > INT64_MAX - b
AddUnderflows(a, b) == b < 0 /\ a < INT64_MIN - b

cq_add64_sat(a, b, faults) ==
    LET g1 == IF b > 0 THEN {INT64_MAX - b} ELSE {}
        g2 == IF b < 0 THEN {INT64_MIN - b} ELSE {}
    IN  IF AddOverflows(a, b)
        THEN [value |-> INT64_MAX, faults |-> faults \cup {"overflow"},
              evaluated |-> g1]
        ELSE IF AddUnderflows(a, b)
        THEN [value |-> INT64_MIN, faults |-> faults \cup {"underflow"},
              evaluated |-> g1 \cup g2]
        ELSE [value |-> a + b, faults |-> faults,
              evaluated |-> g1 \cup g2 \cup {a + b}]

\* cq_mac_q16: *acc = cq_add64_sat(*acc, (int64_t)a * (int64_t)b, faults)
cq_mac_q16(acc, a, b, faults) ==
    LET product == a * b
        r == cq_add64_sat(acc, product, faults)
    IN  [acc |-> r.value, faults |-> r.faults]

SubOverflows(a, b) == b < 0 /\ a > INT64_MAX + b
SubUnderflows(a, b) == b > 0 /\ a < INT64_MIN + b

cq_sub64_sat(a, b, faults) ==
    LET g1 == IF b < 0 THEN {INT64_MAX + b} ELSE {}
        g2 == IF b > 0 THEN {INT64_MIN + b} ELSE {}
    IN  IF SubOverflows(a, b)
        THEN [value |-> INT64_MAX, faults |-> faults \cup {"overflow"},
              evaluated |-> g1]
        ELSE IF SubUnderflows(a, b)
        THEN [value |-> INT64_MIN, faults |-> faults \cup {"underflow"},
              evaluated |-> g1 \cup g2]
        ELSE [value |-> a - b, faults |-> faults,
              evaluated |-> g1 \cup g2 \cup {a - b}]

\* the adjustment of the quotient on an exact tie
RneTieAway(quot, sign) == quot + sign
RneTie(quot, sign) == quot + sign * LowBit(quot)

cq_round_shift_rne(x, shift, faults) ==
    IF shift > MaxShift
    THEN [value |-> 0, faults |-> faults \cup {"overflow"}, evaluated |-> {}]
    ELSE IF shift = 0
    THEN cq_clamp32(x, faults)
    ELSE
        LET divisor == Pow2(shift)
            half == CDiv(divisor, 2)
            quot == CDiv(x, divisor)
            remainder == CRem(x, divisor)
            rounded ==
                IF remainder > half THEN quot + 1
                ELSE IF remainder < -half THEN quot - 1
                ELSE IF remainder = half THEN RneTie(quot, 1)
                ELSE IF remainder = -half THEN RneTie(quot, -1)
                ELSE quot
            r == cq_clamp32(rounded, faults)
        IN  [r EXCEPT !.evaluated = {divisor, half, quot, remainder, rounded}]

\* -b on an int: for b = INT32_MIN the negation overflows, which is
\* undefined; a build either wraps it to INT32_MIN or negates in a wider
\* register
NegOutcomes(b) == IF b = INT32_MIN THEN {INT32_MIN, -INT32_MIN} ELSE {-b}

\* neg_b is the value the build computes for -b.  The shift of a negative
\* dividend is the multiplication by 2^CQ_Q16_SHIFT, as every two's
\* complement build computes it.
cq_div_q16(a, b, faults, neg_b) ==
    IF b = 0
    THEN [value |-> 0, faults |-> faults \cup {"div_zero"}, evaluated |-> {}]
    ELSE
        LET wide_a == a * Pow2(CQ_Q16_SHIFT)
            quot == CDiv(wide_a, b)
            rem == CRem(wide_a, b)
            half_b == IF b > 0 THEN CDiv(b, 2) ELSE CDiv(neg_b, 2)
            abs_rem == IF rem >= 0 THEN rem ELSE -rem
            away == IF quot >= 0 THEN 1 ELSE -1
            rounded ==
                IF abs_rem > half_b THEN quot + away
                ELSE IF abs_rem = half_b /\ LowBit(quot) = 1 THEN quot + away
                ELSE quot
            r == cq_clamp32(rounded, faults)
        IN  [r EXCEPT !.evaluated = {wide_a, quot, rem, half_b, abs_rem,
                                     rounded}]

(***************************************************************************)
(* The primitives as a caller may call them, each on a cleared fault set   *)
(***************************************************************************)
\* the second operands of the 64-bit operations: every narrow value and the
\* ends of the wide range
Operands64 ==
    Int32 \cup {INT64_MIN, INT64_MIN + 1, INT64_MAX - 1, INT64_MAX}

\* shift counts up to two past the largest valid one
Shifts == 0..(MaxShift + 2)

PrimIdle ==
    /\ prim_call = NotCalled
    /\ prim_out = NotCalled

\* no accumulation under way
MacIdle ==
    /\ mac_proof = UNINIT
    /\ mac_acc = 0
    /\ mac_faults = cq_fault_clear
    /\ mac_count = 0
    /\ mac_sum = 0
    /\ mac_within = TRUE

PrimInit == PrimIdle /\ MacIdle

\* a caller's single call: the arguments and what came back
PrimCall(op, x, y, out) ==
    /\ prim_call' = <<op, x, y>>
    /\ prim_out' = <<out>>
    /\ UNCHANGED macVars
    /\ UNCHANGED nonPrim

RoundShiftRne ==
    /\ prim_call = NotCalled
    /\ \E x \in Int64, k \in Shifts :
          PrimCall("rne", x, k, cq_round_shift_rne(x, k, cq_fault_clear))

DivQ16 ==
    /\ prim_call = NotCalled
    /\ \E a, b \in Int32 : \E neg_b \in NegOutcomes(b) :
          PrimCall("div", a, b, cq_div_q16(a, b, cq_fault_clear, neg_b))

Add64Sat ==
    /\ prim_call = NotCalled
    /\ \E a \in Int64, b \in Operands64 :
          PrimCall("add", a, b, cq_add64_sat(a, b, cq_fault_clear))

Sub64Sat ==
    /\ prim_call = NotCalled
    /\ \E a \in Int64, b \in Operands64 :
          PrimCall("sub", a, b, cq_sub64_sat(a, b, cq_fault_clear))

NextPrim ==
    \/ RoundShiftRne
    \/ DivQ16
    \/ Add64Sat
    \/ Sub64Sat

(***************************************************************************)
(* weight_quant.c: quantization kernel, symmetric and dyadic constraints   *)
(* A float weight and the double it is scaled to are exact rationals       *)
(* <<numerator, denominator>>.                                             *)
(***************************************************************************)
CQ_ERROR_DYADIC_VIOLATION == -2
CQ_FAULT_ASYMMETRIC_PARAMS == 32

INT8_MIN == -128
INT8_MAX == 127

\* ldexp(1.0, e)
Ldexp(e) == IF e >= 0 THEN <<Pow2(e), 1>> ELSE <<1, Pow2(-e)>>

\* round(): to the nearest integer, halfway cases away from zero
RoundAway(p) ==
    LET n == Abs(p[1])
        d == p[2]
        m == (2 * n + d) \div (2 * d)
    IN  IF p[1] < 0 THEN -m ELSE m

cq_quantize_weight_rne(w_fp, scale, faults) ==
    LET scaled == RatMul(w_fp, scale)
        r0 == RoundAway(scaled)
        diff == RatSum(<<r0, 1>>, <<-scaled[1], scaled[2]>>)
        r == IF <<Abs(diff[1]), diff[2]>> = <<1, 2>> /\ CRem(r0, 2) # 0
             THEN IF scaled[1] > 0 THEN r0 - 1 ELSE r0 + 1
             ELSE r0
    IN  IF r > INT32_MAX
        THEN [value |-> INT32_MAX, faults |-> faults \cup {"overflow"}]
        ELSE IF r < INT32_MIN
        THEN [value |-> INT32_MIN, faults |-> faults \cup {"underflow"}]
        ELSE [value |-> r, faults |-> faults]

cq_verify_symmetric(spec, faults) ==
    IF ~spec.is_symmetric
    THEN [rc |-> CQ_FAULT_ASYMMETRIC_PARAMS,
          faults |-> faults \cup {"asymmetric"}]
    ELSE [rc |-> 0, faults |-> faults]

\* the tensor specs cq_verify_constraints passes to cq_verify_symmetric
CheckedSpecs == <<"weight_spec", "input_spec", "bias_spec">>

\* the first checked spec from position i on that is refused, 0 if none
RECURSIVE FirstRefused(_, _)
FirstRefused(hdr, i) ==
    IF i > Len(CheckedSpecs) THEN 0
    ELSE IF ~hdr[CheckedSpecs[i]].is_symmetric THEN i
    ELSE FirstRefused(hdr, i + 1)

\* the sum of two int8_t exponents, computed in int
ExpectedExpWrapped(hdr) ==
    ((hdr.weight_spec.scale_exp + hdr.input_spec.scale_exp - INT8_MIN)
        % (INT8_MAX - INT8_MIN + 1)) + INT8_MIN
ExpectedExp(hdr) == hdr.weight_spec.scale_exp + hdr.input_spec.scale_exp

cq_verify_constraints(hdr, faults, null_arg) ==
    IF null_arg
    THEN [rc |-> CQ_ERROR_NULL_POINTER, hdr |-> hdr, faults |-> faults]
    ELSE IF FirstRefused(hdr, 1) # 0
    THEN LET v == cq_verify_symmetric(hdr[CheckedSpecs[FirstRefused(hdr, 1)]],
                                      faults)
         IN  [rc |-> v.rc, hdr |-> hdr, faults |-> v.faults]
    ELSE
        LET expected == ExpectedExp(hdr)
        IN  IF hdr.bias_spec.scale_exp # expected
            THEN [rc |-> CQ_ERROR_DYADIC_VIOLATION,
                  hdr |-> [hdr EXCEPT !.dyadic_valid = FALSE],
                  faults |-> faults]
            ELSE [rc |-> 0,
                  hdr |-> [hdr EXCEPT !.dyadic_valid = TRUE],
                  faults |-> faults]

\* the loop of cq_convert_weights from element i on; st is the buffer w_q
\* and the fault flags so far
RECURSIVE QuantizeFrom(_, _, _, _)
QuantizeFrom(i, w_fp, scale, st) ==
    IF i > Len(w_fp) THEN st
    ELSE LET q == cq_quantize_weight_rne(w_fp[i], scale, st.faults)
         IN  QuantizeFrom(i + 1, w_fp, scale,
                          [w_q |-> [st.w_q EXCEPT ![i] = <<q.value>>],
                           faults |-> q.faults])

cq_convert_weights(w_fp, w_q, spec, faults, null_arg) ==
    IF null_arg
    THEN [rc |-> CQ_ERROR_NULL_POINTER, w_q |-> w_q, faults |-> faults]
    ELSE
        LET v == cq_verify_symmetric(spec, faults)
        IN  IF v.rc # 0
            THEN [rc |-> CQ_FAULT_ASYMMETRIC_PARAMS, w_q |-> w_q,
                  faults |-> v.faults]
            ELSE LET st == QuantizeFrom(1, w_fp, Ldexp(spec.scale_exp),
                                        [w_q |-> w_q, faults |-> v.faults])
                 IN  [rc |-> 0, w_q |-> st.w_q, faults |-> st.faults]

(***************************************************************************)
(* The converter's checks as a caller may call them                        *)
(***************************************************************************)
MaxConvExp == 1         \* scale exponents near zero are -MaxConvExp..MaxConvExp
MaxWeights == 2         \* weights in one cq_convert_weights call

\* scale exponents of a header: near zero and the ends of int8_t
ScaleExps == (-MaxConvExp..MaxConvExp) \cup {INT8_MIN, INT8_MAX}

TensorSpecs == [scale_exp : ScaleExps, is_symmetric : BOOLEAN]

Headers ==
    [weight_spec : TensorSpecs, input_spec : TensorSpecs,
     bias_spec : TensorSpecs, output_spec : TensorSpecs,
     dyadic_valid : BOOLEAN]

\* float weights: halves, quarters, and one beyond the narrow word
WeightValues ==
    { <<-5, 2>>, <<-1, 2>>, <<0, 1>>, <<3, 4>>, <<3, 2>>,
      <<INT32_MAX + 2, 1>> }

WeightArrays ==
    UNION { [1..n -> WeightValues] : n \in 0..MaxWeights }

\* the specs given to cq_convert_weights
ConvertSpecs ==
    [scale_exp : -MaxConvExp..MaxConvExp, is_symmetric : BOOLEAN]

\* a cell of w_q the call has not written
Unwritten == <<>>

ConvInit ==
    /\ conv_call = NotCalled
    /\ conv_hdr = NULL
    /\ conv_spec = NULL
    /\ conv_wq = <<>>
    /\ conv_faults = cq_fault_clear
    /\ conv_rc = NotCalled

VerifyConstraints ==
    /\ conv_call = NotCalled
    /\ \E hdr \in Headers, null_arg \in BOOLEAN :
          LET r == cq_verify_constraints(hdr, cq_fault_clear, null_arg)
          IN  /\ conv_call' = <<"cq_verify_constraints", null_arg>>
              /\ conv_hdr' = <<r.hdr>>
              /\ conv_faults' = r.faults
              /\ conv_rc' = <<r.rc>>
    /\ UNCHANGED <<conv_spec, conv_wq>>
    /\ UNCHANGED nonConv

ConvertWeights ==
    /\ conv_call = NotCalled
    /\ \E w_fp \in WeightArrays, spec \in ConvertSpecs, null_arg \in BOOLEAN :
          LET r == cq_convert_weights(w_fp, [i \in 1..Len(w_fp) |-> Unwritten],
                                      spec, cq_fault_clear, null_arg)
          IN  /\ conv_call' = <<"cq_convert_weights", null_arg>>
              /\ conv_spec' = <<spec>>
              /\ conv_wq' = r.w_q
              /\ conv_faults' = r.faults
              /\ conv_rc' = <<r.rc>>
    /\ UNCHANGED conv_hdr
    /\ UNCHANGED nonConv

NextConv ==
    \/ VerifyConstraints
    \/ ConvertWeights

(***************************************************************************)
(* sha256.c: the streaming interface.  transform is collision-free: the    *)
(* chaining state stands for the sequence of blocks compressed so far, and *)
(* a digest for the chaining state it is written from.                     *)
(***************************************************************************)
CQ_SHA256_BLOCK_SIZE == 64
SHA256_LENGTH_OFFSET == 56

\* a byte of the buffer that no call has written
Unwritten8 == -1

\* transform(ctx, data): compresses the 64 bytes at data into ctx->state
transform(ctx, data) ==
    [ctx EXCEPT !.state = Append(@, SubSeq(data, 1, CQ_SHA256_BLOCK_SIZE))]

cq_sha256_init ==
    [ state  |-> <<>>,
      count  |-> 0,
      buffer |-> [i \in 1..CQ_SHA256_BLOCK_SIZE |-> Unwritten8] ]

\* memcpy(buffer + off, bytes, Len(bytes)) / memset
BufferPut(buf, off, bytes) ==
    [i \in 1..CQ_SHA256_BLOCK_SIZE |->
        IF i > off /\ i <= off + Len(bytes) THEN bytes[i - off] ELSE buf[i]]

Zeros(n) == [i \in 1..n |-> 0]

\* the eight bytes of the bit count, most significant first
RECURSIVE BEBytes(_, _)
BEBytes(v, n) ==
    IF n = 0 THEN <<>> ELSE Append(BEBytes(v \div 256, n - 1), v % 256)

\* while (len >= 64) { transform(ctx, p); p += 64; len -= 64; }
RECURSIVE WholeBlocks(_, _)
WholeBlocks(ctx, p) ==
    IF Len(p) >= CQ_SHA256_BLOCK_SIZE
    THEN WholeBlocks(transform(ctx, p),
                     SubSeq(p, CQ_SHA256_BLOCK_SIZE + 1, Len(p)))
    ELSE [ctx |-> ctx, p |-> p]

\* the part of cq_sha256_update after the partial block was completed; hi is
\* the highest buffer index written so far in the call (-1: none)
UpdateRest(ctx, p, hi) ==
    LET w == WholeBlocks(ctx, p)
    IN  IF Len(w.p) > 0
        THEN [ctx |-> [w.ctx EXCEPT !.buffer = BufferPut(@, 0, w.p)],
              hi  |-> IF Len(w.p) - 1 > hi THEN Len(w.p) - 1 ELSE hi]
        ELSE [ctx |-> w.ctx, hi |-> hi]

cq_sha256_update(ctx, data) ==
    LET len == Len(data)
        idx == ctx.count % CQ_SHA256_BLOCK_SIZE
        c1  == [ctx EXCEPT !.count = @ + len]
        fill == CQ_SHA256_BLOCK_SIZE - idx
    IN  IF idx > 0
        THEN IF len < fill
             THEN [ctx |-> [c1 EXCEPT !.buffer = BufferPut(@, idx, data)],
                   hi  |-> idx + len - 1]
             ELSE LET c2 == [c1 EXCEPT !.buffer =
                                 BufferPut(@, idx, SubSeq(data, 1, fill))]
                  IN  UpdateRest(transform(c2, c2.buffer),
                                 SubSeq(data, fill + 1, len), idx + fill - 1)
        ELSE UpdateRest(c1, data, -1)

NeedsBlockAtLengthOffset(idx) == idx >= SHA256_LENGTH_OFFSET
\* if (idx > 56): the padding byte left no room for the bit count
NeedsBlock(idx) == idx > SHA256_LENGTH_OFFSET

cq_sha256_final(ctx) ==
    LET bits == ctx.count * 8
        idx  == ctx.count % CQ_SHA256_BLOCK_SIZE
        c1   == [ctx EXCEPT !.buffer = BufferPut(@, idx, <<128>>)]
        idx1 == idx + 1
        c2   == IF NeedsBlock(idx1)
                THEN LET b == BufferPut(c1.buffer, idx1,
                                        Zeros(CQ_SHA256_BLOCK_SIZE - idx1))
                     IN  transform([c1 EXCEPT !.buffer = b], b)
                ELSE c1
        idx2 == IF NeedsBlock(idx1) THEN 0 ELSE idx1
        c3   == [c2 EXCEPT !.buffer =
                    BufferPut(@, idx2, Zeros(SHA256_LENGTH_OFFSET - idx2))]
        c4   == [c3 EXCEPT !.buffer =
                    BufferPut(@, SHA256_LENGTH_OFFSET, BEBytes(bits, 8))]
        c5   == transform(c4, c4.buffer)
    IN  [ctx |-> c5, digest |-> <<c5.state>>, hi |-> CQ_SHA256_BLOCK_SIZE - 1]

\* cq_sha256: init, one update with the whole message, final
cq_sha256(data) ==
    cq_sha256_final(cq_sha256_update(cq_sha256_init, data).ctx).digest

(***************************************************************************)
(* A message hashed in chunks                                              *)
(***************************************************************************)
MaxMsgLen == 130

\* byte i of a message differs from its neighbours and from the padding
Message(n) == [i \in 1..n |-> 1 + (i % 100)]

ChunkLens ==
    {0, 1, 7, 8, 9, SHA256_LENGTH_OFFSET - 1, SHA256_LENGTH_OFFSET,
     SHA256_LENGTH_OFFSET + 1, CQ_SHA256_BLOCK_SIZE - 1, CQ_SHA256_BLOCK_SIZE,
     CQ_SHA256_BLOCK_SIZE + 1, 2 * CQ_SHA256_BLOCK_SIZE, MaxMsgLen}

ShaInit ==
    /\ \E n \in 0..MaxMsgLen : sha_msg = Message(n)
    /\ sha_ctx = cq_sha256_init
    /\ sha_pos = 0
    /\ sha_digest = <<>>
    /\ sha_hi = -1
    /\ sha_split = {}

ShaIdle ==
    /\ sha_msg = <<>>
    /\ sha_ctx = cq_sha256_init
    /\ sha_pos = 0
    /\ sha_digest = <<>>
    /\ sha_hi = -1
    /\ sha_split = {}

\* what a chunk of len bytes fed at position pos is: empty, or crossing a
\* block boundary that it neither starts nor ends at
ChunkKinds(pos, len) ==
    (IF len = 0 THEN {"empty"} ELSE {})
    \cup (IF /\ pos % CQ_SHA256_BLOCK_SIZE # 0
             /\ (pos + len) % CQ_SHA256_BLOCK_SIZE # 0
             /\ pos \div CQ_SHA256_BLOCK_SIZE
                    < (pos + len) \div CQ_SHA256_BLOCK_SIZE
          THEN {"straddle"} ELSE {})

Sha256Update ==
    /\ sha_digest = <<>>
    /\ \E len \in ChunkLens :
          /\ sha_pos + len <= Len(sha_msg)
          /\ LET r == cq_sha256_update(sha_ctx,
                          SubSeq(sha_msg, sha_pos + 1, sha_pos + len))
             IN  /\ sha_ctx' = r.ctx
                 /\ sha_hi' = IF r.hi > sha_hi THEN r.hi ELSE sha_hi
          /\ sha_pos' = sha_pos + len
          /\ sha_split' = sha_split \cup ChunkKinds(sha_pos, len)
    /\ UNCHANGED <<sha_msg, sha_digest>>
    /\ UNCHANGED nonSha

\* the caller finishes once the whole message was fed
Sha256Final ==
    /\ sha_digest = <<>>
    /\ sha_pos = Len(sha_msg)
    /\ LET r == cq_sha256_final(sha_ctx)
       IN  /\ sha_ctx' = r.ctx
           /\ sha_digest' = r.digest
           /\ sha_hi' = IF r.hi > sha_hi THEN r.hi ELSE sha_hi
    /\ UNCHANGED <<sha_msg, sha_pos, sha_split>>
    /\ UNCHANGED nonSha

NextSha ==
    \/ Sha256Update
    \/ Sha256Final

InitSha ==
    ShaInit /\ CertInit /\ VerIdle /\ CalIdle /\ OvfInit /\ AnaIdle /\ PrimInit
        /\ ConvInit

SpecSha == InitSha /\ [][NextSha]_vars

InitCert ==
    CertInit /\ VerIdle /\ CalIdle /\ OvfInit /\ AnaIdle /\ PrimInit /\ ConvInit
        /\ ShaIdle

SpecCert == InitCert /\ [][NextCert]_vars

InitVerify ==
    VerInit /\ CertInit /\ CalIdle /\ OvfInit /\ AnaIdle /\ PrimInit /\ ConvInit
        /\ ShaIdle

SpecVerify == InitVerify /\ [][NextVer]_vars

InitCalib ==
    CalInit /\ CertInit /\ VerIdle /\ OvfInit /\ AnaIdle /\ PrimInit /\ ConvInit
        /\ ShaIdle

SpecCalib == InitCalib /\ [][NextCal]_vars

InitOverflow ==
    OvfInit /\ CertInit /\ VerIdle /\ CalIdle /\ AnaIdle /\ PrimInit /\ ConvInit
        /\ ShaIdle

SpecOverflow == InitOverflow /\ [][NextOvf]_vars

InitAnalyze ==
    AnaInit(ProofDriver) /\ CertInit /\ VerIdle /\ CalIdle /\ OvfInit /\ PrimInit /\ ConvInit
        /\ ShaIdle

SpecAnalyze == InitAnalyze /\ [][NextAna]_vars

InitErrors ==
    AnaInit(ErrorDriver) /\ CertInit /\ VerIdle /\ CalIdle /\ OvfInit /\ PrimInit /\ ConvInit
        /\ ShaIdle

SpecErrors == InitErrors /\ [][NextAna]_vars

InitPrimitives ==
    PrimInit /\ CertInit /\ VerIdle /\ CalIdle /\ OvfInit /\ AnaIdle /\ ConvInit
        /\ ShaIdle

SpecPrimitives == InitPrimitives /\ [][NextPrim]_vars

(***************************************************************************)
(* A dot product accumulated with cq_mac_q16 under an overflow proof       *)
(***************************************************************************)
MaxMacs == 3

MacMagnitudes == {0, 1, INT32_MAX, INT32_MAX + 1}
MacOperands == {INT32_MIN, -1, 0, 1, INT32_MAX}

\* the proof has been computed for the layer and the accumulator is zero
MacInit ==
    /\ \E w, x \in MacMagnitudes, n \in 0..MaxMacs :
          mac_proof = cq_compute_overflow_proof(w, x, n).proof
    /\ mac_acc = 0
    /\ mac_faults = cq_fault_clear
    /\ mac_count = 0
    /\ mac_sum = 0
    /\ mac_within = TRUE

MacQ16 ==
    /\ mac_proof # UNINIT
    /\ mac_count < MaxMacs
    /\ \E a, b \in MacOperands :
          LET r == cq_mac_q16(mac_acc, a, b, mac_faults)
          IN  /\ mac_acc' = r.acc
              /\ mac_faults' = r.faults
              /\ mac_sum' = mac_sum + a * b
              /\ mac_within' = (/\ mac_within
                                /\ Abs(a) <= mac_proof.max_weight_mag
                                /\ Abs(b) <= mac_proof.max_input_mag)
    /\ mac_count' = mac_count + 1
    /\ UNCHANGED <<mac_proof, prim_call, prim_out>>
    /\ UNCHANGED nonPrim

InitMac ==
    MacInit /\ PrimIdle /\ CertInit /\ VerIdle /\ CalIdle /\ OvfInit /\ AnaIdle /\ ConvInit
        /\ ShaIdle

SpecMac == InitMac /\ [][MacQ16]_vars

InitConvert ==
    ConvInit /\ CertInit /\ VerIdle /\ CalIdle /\ OvfInit /\ AnaIdle /\ PrimInit
        /\ ShaIdle

SpecConvert == InitConvert /\ [][NextConv]_vars

(***************************************************************************)
(* cq_certificate_deserialise on a buffer received from elsewhere          *)
(***************************************************************************)
\* a complete builder, and the certificate built from it
ReceivedBuilder ==
    LET b1 == cq_certificate_builder_set_source_hash(
                  cq_certificate_builder_init, CHOOSE h \in HashArgs : TRUE)
        b2 == cq_certificate_builder_set_bn_info(b1, FALSE, NULL)
        b3 == cq_certificate_builder_set_analysis(b2,
                  <<CHOOSE d \in AnalysisDigests : TRUE>>)
        b4 == cq_certificate_builder_set_calibration(b3,
                  <<CHOOSE d \in CalibrationDigests : d.range_veto_status = 0>>)
        b5 == cq_certificate_builder_set_verification(b4,
                  <<CHOOSE d \in VerificationDigests : d.bounds_satisfied = 1>>)
    IN  cq_certificate_builder_set_target(b5, CHOOSE h \in HashArgs : TRUE,
                                          100000, 5)

IssuedCert ==
    cq_certificate_build(ReceivedBuilder, UNINIT, cq_fault_clear,
                         CHOOSE now \in Timestamps : TRUE, FALSE).cert

\* the issued certificate's bytes, as issued or with one byte changed
ReceivedImages ==
    {IssuedCert}
        \cup {[IssuedCert EXCEPT ![o] = OtherByte(@)] : o \in CertOffsets}

\* the sizes of the buffers handed to cq_certificate_deserialise
ReceivedSizes ==
    {1, CQ_CERTIFICATE_SIZE - 1, CQ_CERTIFICATE_SIZE, CQ_CERTIFICATE_SIZE + 1}

\* the caller holds a zeroed cq_certificate_t and a buffer of some size, or
\* no buffer at all
ReceiveInit ==
    /\ builder = cq_certificate_builder_init
    /\ cert = UNINIT
    /\ build_rc = NotCalled
    /\ build_faults = cq_fault_clear
    /\ \E image \in ReceivedImages, size \in ReceivedSizes, null \in BOOLEAN :
          /\ buffer = IF null THEN NULL
                      ELSE [o \in 0..(size - 1) |->
                               IF o \in CertOffsets THEN image[o] ELSE <<0>>]
          /\ buf_size = <<size>>
    /\ cert_restored = ZeroCert
    /\ deser_rc = NotCalled
    /\ tampered = -1
    /\ cert_calls = NoCalls

(***************************************************************************)
(* A certificate built from the digests the three modules produced         *)
(***************************************************************************)
\* analysis digests: the total bound the analyzer proved
IssuedAnalysis ==
    { [entry_error |-> 1, total_error_bound |-> t, layer_count |-> 2,
       overflow_safe_count |-> 2, layers_hash |-> 204]
      : t \in (MaxDigestError - 1)..MaxDigestError }

\* verification digests as cq_verification_digest_generate fills them: the
\* verifier's own theoretical total, the measured maximum, the layers that
\* passed and the pass byte copied from the report's flags
IssuedVerification ==
    { [verification_set_hash |-> 238, sample_count |-> 500, layers_passed |-> p,
       total_error_theoretical |-> t, total_error_max_measured |-> m,
       bounds_satisfied |-> IF p = 2 /\ m <= t THEN 1 ELSE 0]
      : p \in 1..2, t \in (MaxDigestError - 1)..(MaxDigestError + 1),
        m \in 0..(MaxDigestError + 1) }

IssueBuilder(ad, vd) ==
    LET b1 == cq_certificate_builder_set_source_hash(
                  cq_certificate_builder_init, CHOOSE h \in HashArgs : TRUE)
        b2 == cq_certificate_builder_set_bn_info(b1, FALSE, NULL)
        b3 == cq_certificate_builder_set_analysis(b2, <<ad>>)
        b4 == cq_certificate_builder_set_calibration(b3,
                  <<CHOOSE d \in CalibrationDigests : d.range_veto_status = 0>>)
        b5 == cq_certificate_builder_set_verification(b4, <<vd>>)
    IN  cq_certificate_builder_set_target(b5, CHOOSE h \in HashArgs : TRUE,
                                          100000, 5)

IssueInit ==
    /\ \E ad \in IssuedAnalysis, vd \in IssuedVerification :
          builder = IssueBuilder(ad, vd)
    /\ cert = UNINIT
    /\ build_rc = NotCalled
    /\ build_faults = cq_fault_clear
    /\ buffer = UNINIT
    /\ buf_size = NotCalled
    /\ cert_restored = UNINIT
    /\ deser_rc = NotCalled
    /\ tampered = -1
    /\ cert_calls = NoCalls

(***************************************************************************)
(* cq_calibration_compute_global_coverage over reports of many tensors     *)
(***************************************************************************)
MaxGlobalTensors == 11

GlobalCounts == {1, 2, 9, 10, MaxGlobalTensors}
GlobalCoverages == {<<1, 2>>, <<1, 1>>}

\* a report whose tensors carry the coverage ratios of the per-tensor loop
GlobalInit ==
    /\ \E n \in GlobalCounts :
          /\ \E cov \in [1..n -> GlobalCoverages] :
                cal_tensors = [i \in 1..n |->
                    [cq_tensor_stats_init(i - 1, i - 1, -1, 1)
                        EXCEPT !.coverage_ratio = cov[i]]]
          /\ cal_report = cq_calibration_report_init(n)
    /\ cal_faults = cq_fault_clear
    /\ cal_rc = NotCalled
    /\ cal_ops = 0
    /\ cal_final = FALSE
    /\ cal_seen = <<>>
    /\ cal_digest = <<>>

\* malloc returns the temporary array or NULL
ComputeGlobalCoverage ==
    /\ cal_ops = 0
    /\ \E malloc_ok \in BOOLEAN :
          cal_report' = cq_calibration_compute_global_coverage(
                            cal_report, cal_tensors, malloc_ok)
    /\ cal_ops' = 1
    /\ UNCHANGED <<cal_tensors, cal_faults, cal_rc, cal_final, cal_seen, cal_digest>>
    /\ UNCHANGED nonCal

InitGlobal ==
    GlobalInit /\ CertInit /\ VerIdle /\ OvfInit /\ AnaIdle /\ PrimInit /\ ConvInit
        /\ ShaIdle

SpecGlobal == InitGlobal /\ [][ComputeGlobalCoverage]_vars

(***************************************************************************)
(* A layer header verified again after its specs were changed              *)
(***************************************************************************)
\* a header that no call has verified yet
RevalidateInit ==
    /\ conv_call = NotCalled
    /\ \E hdr \in Headers : ~hdr.dyadic_valid /\ conv_hdr = <<hdr>>
    /\ conv_spec = NULL
    /\ conv_wq = <<>>
    /\ conv_faults = cq_fault_clear
    /\ conv_rc = NotCalled

Reverify ==
    /\ conv_call = NotCalled
    /\ LET r == cq_verify_constraints(conv_hdr[1], conv_faults, FALSE)
       IN  /\ conv_call' = <<"cq_verify_constraints", FALSE>>
           /\ conv_hdr' = <<r.hdr>>
           /\ conv_faults' = r.faults
           /\ conv_rc' = <<r.rc>>
    /\ UNCHANGED <<conv_spec, conv_wq>>
    /\ UNCHANGED nonConv

\* the caller writes another spec into the header; dyadic_valid stays
ChangeSpecs ==
    /\ conv_call # NotCalled
    /\ \E f \in {"weight_spec", "input_spec", "bias_spec", "output_spec"},
          spec \in TensorSpecs :
          conv_hdr' = <<[conv_hdr[1] EXCEPT ![f] = spec]>>
    /\ conv_call' = NotCalled
    /\ conv_rc' = NotCalled
    /\ UNCHANGED <<conv_spec, conv_wq, conv_faults>>
    /\ UNCHANGED nonConv

NextRevalidate ==
    \/ Reverify
    \/ ChangeSpecs

InitRevalidate ==
    RevalidateInit /\ CertInit /\ VerIdle /\ CalIdle /\ OvfInit /\ AnaIdle /\ PrimInit
        /\ ShaIdle

SpecRevalidate == InitRevalidate /\ [][NextRevalidate]_vars

InitIssue ==
    IssueInit /\ VerIdle /\ CalIdle /\ OvfInit /\ AnaIdle /\ PrimInit /\ ConvInit
        /\ ShaIdle

SpecIssue == InitIssue /\ [][Build]_vars

InitReceive ==
    ReceiveInit /\ VerIdle /\ CalIdle /\ OvfInit /\ AnaIdle /\ PrimInit
        /\ ConvInit /\ ShaIdle

SpecReceive == InitReceive /\ [][Deserialise]_vars

(***************************************************************************)
(* Claims about the notary                                                 *)
(***************************************************************************)
\* A fatal fault known to the builder: in its own fault set, or recorded by
\* an input digest (the calibration digest's range veto).
BuilderHasFatal(b) ==
    \/ cq_has_fatal_fault(b.faults)
    \/ b.calibration_set /\ b.calibration_digest.range_veto_status = 1

\* C1: cq_certificate_build returns non-zero and issues no certificate when
\* the builder is incomplete or a fatal fault is set in the builder or
\* recorded by an input digest; it returns 0 only when neither holds.
C1_BuildRefusesIncompleteOrFatal ==
    /\ build_rc = <<0>> =>
          /\ cq_certificate_builder_is_complete(builder)
          /\ ~BuilderHasFatal(builder)
    /\ (build_rc # NotCalled /\ build_rc # <<0>>) => cert = UNINIT

\* C2: a certificate returned by a successful build passes the integrity
\* check, and fails it after any single byte at an offset in [0, 264) has
\* been changed with the stored merkle_root left alone.
C2_IntegrityDetectsTamper ==
    build_rc = <<0>> =>
        IF tampered = -1
        THEN cq_certificate_verify_integrity(cert)
        ELSE ~cq_certificate_verify_integrity(cert)

\* C2 witness: an issued certificate whose target_layer_count was changed
C2_Witness ==
    /\ build_rc = <<0>>
    /\ tampered >= OFF_target_layer_count
    /\ ~cq_certificate_verify_integrity(cert)

\* C3: for every certificate the notary issued, whatever the format tag
\* given to set_format, serialise writes 360 bytes and deserialise of them
\* returns 0 and yields a bitwise equal certificate.
C3_RoundTrip ==
    deser_rc # NotCalled =>
        /\ buf_size = <<CQ_CERTIFICATE_SIZE>>
        /\ deser_rc = <<0>>
        /\ cert_restored = cert

(***************************************************************************)
(* Claims about the verifier                                               *)
(***************************************************************************)
\* every sample fed to layer i (0: the end-to-end total) is within the bound
FedWithin(k, bound) == \A e \in ver_fed[k] : e <= bound

LayerFedWithin(i) == FedWithin(i, ver_layers[i].error_bound_theoretical)

TotalFedWithin == FedWithin(0, ver_report.total_error_theoretical)

\* C4: after any updates on an initialised report followed by
\* cq_verify_check_all_bounds with a cleared fault set, all_bounds_satisfied
\* is true exactly when every sample fed to every layer is <= that layer's
\* bound, total_bound_satisfied exactly when every total sample is <= the
\* total bound, every layer's own flag is evaluated whatever the earlier
\* layers gave, and bound_violation is raised exactly when one is violated.
C4_CheckAllBounds ==
    ver_checked =>
        /\ ver_report.all_bounds_satisfied <=> \A i \in Layers : LayerFedWithin(i)
        /\ ver_report.total_bound_satisfied <=> TotalFedWithin
        /\ \A i \in Layers : ver_layers[i].bound_satisfied <=> LayerFedWithin(i)
        /\ ("bound_violation" \in ver_faults)
              <=> ~((\A i \in Layers : LayerFedWithin(i)) /\ TotalFedWithin)
        /\ (ver_rc = <<0>>)
              <=> ((\A i \in Layers : LayerFedWithin(i)) /\ TotalFedWithin)

\* the first layer violates its bound, the second one has a sample equal to
\* its bound and is still evaluated and passed
C4_Witness ==
    /\ ver_checked
    /\ ~LayerFedWithin(1)
    /\ ver_layers[2].error_bound_theoretical \in ver_fed[2]
    /\ ver_layers[2].bound_satisfied
    /\ ~ver_report.all_bounds_satisfied
    /\ ver_report.total_bound_satisfied
    /\ "bound_violation" \in ver_faults

VerAllWithin ==
    /\ \A i \in Layers :
          ver_layers[i].error_max_measured <= ver_layers[i].error_bound_theoretical
    /\ ver_report.total_error_max_measured <= ver_report.total_error_theoretical

\* the pass byte and the passed-layer count agree with the measurements
DigestAgrees ==
    /\ VerAllWithin =>
          /\ ver_digest[1].bounds_satisfied = 1
          /\ ver_digest[1].layers_passed = ver_report.layer_count
    /\ ~VerAllWithin => ver_digest[1].bounds_satisfied = 0

\* C5 as stated: the digest of every verification run has
\* bounds_satisfied = 1 and layers_passed = layer_count when every layer's
\* error_max_measured and the total one are within their bounds, and the
\* byte is 0 when some bound is exceeded.
C5_DigestPassByteAnyRun == ver_digest # <<>> => DigestAgrees

\* C5 amended: the same for the digest of a run in which
\* cq_verify_check_all_bounds was called after the last update; the digest
\* copies the flags that call left in the report.
C5_DigestPassByte == (ver_digest # <<>> /\ ver_checked) => DigestAgrees

\* a digest of a run whose layers pass and whose total exceeds its bound
C5_Witness ==
    /\ ver_digest # <<>>
    /\ ver_checked
    /\ ver_fed[1] # {}
    /\ ver_digest[1].layers_passed = NumLayers
    /\ ver_report.total_error_max_measured > ver_report.total_error_theoretical
    /\ ver_digest[1].bounds_satisfied = 0

(***************************************************************************)
(* Claims about the calibrator                                             *)
(***************************************************************************)
TensorOutside(i) ==
    \/ cal_tensors[i].min_observed < cal_tensors[i].min_safe
    \/ cal_tensors[i].max_observed > cal_tensors[i].max_safe

SomeTensorOutside == \E i \in Tensors : TensorOutside(i)

\* finalize has run on the report as it stands
CalFinalized == cal_final /\ cal_rc = <<0>>

\* C6: after cq_calibration_report_finalize, range_veto_triggered is true,
\* with the range_exceed fault set and cq_calibration_passed false, exactly
\* when some tensor has min_observed < min_safe or max_observed > max_safe;
\* observations on the safe boundary raise no veto.
C6_RangeVeto ==
    CalFinalized =>
        /\ cal_report.range_veto_triggered <=> SomeTensorOutside
        /\ ("range_exceed" \in cal_faults) <=> SomeTensorOutside
        /\ cq_calibration_passed(cal_report) <=> ~SomeTensorOutside

\* a finalized report whose tensors were observed exactly up to their safe
\* limits and which passed
C6_Witness ==
    /\ cal_rc = <<0>>
    /\ \A i \in Tensors :
          /\ cal_tensors[i].min_observed = cal_tensors[i].min_safe
          /\ cal_tensors[i].max_observed = cal_tensors[i].max_safe
          /\ cal_tensors[i].max_safe > 0
    /\ ~cal_report.range_veto_triggered
    /\ cq_calibration_passed(cal_report)

(***************************************************************************)
(* Claims about the overflow proof                                         *)
(***************************************************************************)
\* the mathematical product n * w * x of the proof's inputs
ExactProduct ==
    ovf_proof.dot_product_len * ovf_proof.max_weight_mag * ovf_proof.max_input_mag

\* C7: cq_compute_overflow_proof sets is_safe (and returns true) exactly
\* when the exact product n * w * x is below 2^63; safety_margin is 2^63
\* minus the product when safe (2^63 when a factor is zero) and 0 when
\* unsafe; no 64-bit intermediate of the computation wraps.
C7_OverflowProofExact ==
    ovf_proof # UNINIT =>
        /\ ovf_proof.is_safe <=> ExactProduct < OverflowLimit
        /\ ovf_rc = <<ovf_proof.is_safe>>
        /\ ovf_proof.is_safe => ovf_proof.safety_margin = OverflowLimit - ExactProduct
        /\ ~ovf_proof.is_safe => ovf_proof.safety_margin = 0
        /\ ~ovf_wrapped

\* a proof refused by the second guard: n * w fits the wide word, n * w * x
\* is beyond it and a multiple of its range
C7_Witness ==
    /\ ovf_proof # UNINIT
    /\ ovf_proof.dot_product_len * ovf_proof.max_weight_mag <= UINT64_MAX
    /\ ExactProduct > UINT64_MAX
    /\ ExactProduct % (UINT64_MAX + 1) = 0
    /\ ~ovf_proof.is_safe
    /\ ovf_proof.safety_margin = 0

\* C8: cq_overflow_is_safe returns true exactly when the exact product
\* dot_product_len * max_weight_mag * max_input_mag is below 2^63, and so
\* agrees with the verdict of cq_compute_overflow_proof on the same inputs.
C8_PrecheckExact ==
    ovf_pre # NotCalled =>
        /\ ovf_pre = <<ExactProduct < OverflowLimit>>
        /\ ovf_pre = <<ovf_proof.is_safe>>

(***************************************************************************)
(* Claims about the analyzer                                               *)
(***************************************************************************)
CtxLayers == 1..ana_ctx.layer_count

\* C9: cq_analysis_passed holds only if every layer's overflow proof is
\* safe; a contract whose overflow proof failed or was never computed is
\* not marked valid.
C9_PassedNeedsSafeProofs ==
    /\ cq_analysis_passed(ana_ctx) =>
          \A i \in CtxLayers : ana_layers[i].overflow_proof.is_safe
    /\ \A i \in CtxLayers :
          ana_layers[i].is_valid => ana_layers[i].overflow_proof.is_safe

\* the layers the recurrence has been applied to
Analysed == {i \in CtxLayers : i < ana_pos}

\* the bound after the first k layers
BoundAfter(k) ==
    IF k = 0 THEN ana_ctx.entry_error ELSE ana_layers[k].output_error_bound

\* cq_compute_total_error has run on the chain with every layer analysed
AnaTotalComputed ==
    /\ ana_rc = <<0>>
    /\ ana_ctx.is_complete
    /\ ana_ctx.is_valid

\* C10 as stated: for non-negative amplification factors every analysed
\* layer has output_error_bound >= input_error_bound, the bound does not
\* decrease when a layer is appended, and total_error_bound >= entry_error.
C10_BoundNondecreasing ==
    /\ \A i \in Analysed :
          /\ RatLeq(ana_layers[i].input_error_bound, ana_layers[i].output_error_bound)
          /\ RatLeq(BoundAfter(i - 1), BoundAfter(i))
    /\ AnaTotalComputed => RatLeq(ana_ctx.entry_error, ana_ctx.total_error_bound)

AmpAtLeastOne(i) == RatLeq(<<1, 1>>, ana_layers[i].amp_factor)

\* C10 amended: the same for the layers whose amplification factor is at
\* least 1, and for the total when every layer's factor is at least 1.
C10_BoundNondecreasingAmpGeOne ==
    /\ \A i \in Analysed :
          AmpAtLeastOne(i) =>
              /\ RatLeq(ana_layers[i].input_error_bound,
                        ana_layers[i].output_error_bound)
              /\ RatLeq(BoundAfter(i - 1), BoundAfter(i))
    /\ (AnaTotalComputed /\ \A i \in CtxLayers : AmpAtLeastOne(i))
          => RatLeq(ana_ctx.entry_error, ana_ctx.total_error_bound)

\* a chain of two layers, the first with factor 1 and the second above 1,
\* whose total has been computed and is above the entry error
C10_Witness ==
    /\ ana_ctx.layer_count = 2
    /\ AnaTotalComputed
    /\ ana_layers[1].amp_factor = <<1, 1>>
    /\ RatLess(<<1, 1>>, ana_layers[2].amp_factor)
    /\ RatLess(ana_ctx.entry_error, ana_layers[1].output_error_bound)
    /\ RatLess(ana_layers[1].output_error_bound, ana_ctx.total_error_bound)

(***************************************************************************)
(* Claims about the DVM primitives                                         *)
(***************************************************************************)
\* num / den (den # 0) rounded to the nearest integer, ties to the even one
RoundHalfEven(num, den) ==
    LET n == IF den < 0 THEN -num ELSE num
        d == IF den < 0 THEN -den ELSE den
        q == n \div d
        r == n % d
    IN  IF 2 * r < d THEN q
        ELSE IF 2 * r > d THEN q + 1
        ELSE IF q % 2 = 0 THEN q ELSE q + 1

\* v saturated to the int32_t range
Saturate32(v) ==
    IF v > INT32_MAX THEN INT32_MAX ELSE IF v < INT32_MIN THEN INT32_MIN ELSE v

\* the flags a saturation of v to int32_t raises on a cleared fault set
SaturationFaults32(v) ==
    IF v > INT32_MAX THEN {"overflow"}
    ELSE IF v < INT32_MIN THEN {"underflow"} ELSE {}

PrimCalled(op) == prim_call # NotCalled /\ prim_call[1] = op

\* C11: cq_round_shift_rne(x, k) is x / 2^k rounded half to even and
\* saturated to int32_t, flagged when it saturates, for every shift from 1
\* to the largest valid one; it is cq_clamp32(x) for k = 0; it is 0 with
\* the overflow flag for a larger shift.
C11_RoundShiftRne ==
    PrimCalled("rne") =>
        LET x == prim_call[2]
            k == prim_call[3]
            out == prim_out[1]
            exact == RoundHalfEven(x, Pow2(k))
        IN  /\ k \in 1..MaxShift =>
                  /\ out.value = Saturate32(exact)
                  /\ out.faults = SaturationFaults32(exact)
            /\ k = 0 =>
                  /\ out.value = cq_clamp32(x, cq_fault_clear).value
                  /\ out.faults = cq_clamp32(x, cq_fault_clear).faults
            /\ k > MaxShift =>
                  /\ out.value = 0
                  /\ "overflow" \in out.faults

\* a negative x exactly halfway between two integers, rounded away from the
\* truncated quotient to the even neighbour
C11_Witness ==
    /\ PrimCalled("rne")
    /\ prim_call[2] < 0
    /\ prim_call[3] \in 2..MaxShift
    /\ 2 * CRem(prim_call[2], Pow2(prim_call[3])) = -Pow2(prim_call[3])
    /\ prim_out[1].value = CDiv(prim_call[2], Pow2(prim_call[3])) - 1
    /\ prim_out[1].value % 2 = 0

\* C12: cq_div_q16(a, b) with b # 0 is (a * 2^16) / b rounded half to even
\* and saturated to int32_t, for every sign of a and b and for even and odd
\* b; with b = 0 it returns 0 and sets the div_zero flag and no other.
C12_DivQ16Exact ==
    PrimCalled("div") =>
        LET a == prim_call[2]
            b == prim_call[3]
            out == prim_out[1]
        IN  /\ b # 0 =>
                  out.value =
                      Saturate32(RoundHalfEven(a * Pow2(CQ_Q16_SHIFT), b))
            /\ b = 0 =>
                  /\ out.value = 0
                  /\ out.faults = {"div_zero"}

\* C13: cq_add64_sat and cq_sub64_sat return the exact sum or difference
\* when it is an int64_t, INT64_MAX with the overflow flag when it is above
\* INT64_MAX, INT64_MIN with the underflow flag when it is below INT64_MIN,
\* and every expression they evaluate is an int64_t.
C13_SaturatingAddSub ==
    (PrimCalled("add") \/ PrimCalled("sub")) =>
        LET a == prim_call[2]
            b == prim_call[3]
            out == prim_out[1]
            exact == IF prim_call[1] = "add" THEN a + b ELSE a - b
        IN  /\ exact \in Int64 =>
                  out.value = exact /\ out.faults = {}
            /\ exact > INT64_MAX =>
                  out.value = INT64_MAX /\ out.faults = {"overflow"}
            /\ exact < INT64_MIN =>
                  out.value = INT64_MIN /\ out.faults = {"underflow"}
            /\ out.evaluated \subseteq Int64

\* the subtraction of INT64_MIN from a non-negative a, which saturates, and
\* whose guard term INT64_MAX + b was evaluated
C13_Witness ==
    /\ PrimCalled("sub")
    /\ prim_call[3] = INT64_MIN
    /\ prim_call[2] >= 0
    /\ prim_out[1].value = INT64_MAX
    /\ prim_out[1].faults = {"overflow"}
    /\ (INT64_MAX + INT64_MIN) \in prim_out[1].evaluated

(***************************************************************************)
(* Claims about the converter                                              *)
(***************************************************************************)
ConvCalled(f) ==
    conv_call # NotCalled /\ conv_call[1] = f /\ ~conv_call[2]

HeaderSpecs == {"weight_spec", "input_spec", "bias_spec", "output_spec"}

\* C14: cq_verify_constraints returns non-zero and sets the asymmetric flag
\* when any of the header's weight, input, bias and output specs is not
\* symmetric; cq_convert_weights given an asymmetric spec returns non-zero,
\* sets the asymmetric flag and writes no element of w_q.
C14_AsymmetricRefused ==
    /\ ConvCalled("cq_verify_constraints") =>
          ((\E f \in HeaderSpecs : ~conv_hdr[1][f].is_symmetric) =>
              /\ conv_rc # <<0>>
              /\ "asymmetric" \in conv_faults)
    /\ ConvCalled("cq_convert_weights") =>
          (~conv_spec[1].is_symmetric =>
              /\ conv_rc # <<0>>
              /\ "asymmetric" \in conv_faults
              /\ \A i \in DOMAIN conv_wq : conv_wq[i] = Unwritten)

\* C15: after cq_verify_constraints on a header whose weight, input and
\* bias specs are symmetric, dyadic_valid is true iff bias.scale_exp is the
\* integer sum weight.scale_exp + input.scale_exp; the call returns 0 then
\* and CQ_ERROR_DYADIC_VIOLATION otherwise.
C15_DyadicValid ==
    ConvCalled("cq_verify_constraints") =>
        LET hdr == conv_hdr[1]
            sum == hdr.weight_spec.scale_exp + hdr.input_spec.scale_exp
        IN  (/\ hdr.weight_spec.is_symmetric
             /\ hdr.input_spec.is_symmetric
             /\ hdr.bias_spec.is_symmetric) =>
                /\ hdr.dyadic_valid <=> (hdr.bias_spec.scale_exp = sum)
                /\ hdr.bias_spec.scale_exp = sum => conv_rc = <<0>>
                /\ hdr.bias_spec.scale_exp # sum =>
                       conv_rc = <<CQ_ERROR_DYADIC_VIOLATION>>

\* a header whose bias exponent equals the sum only after an 8-bit wrap is
\* refused
C15_Witness ==
    /\ ConvCalled("cq_verify_constraints")
    /\ conv_hdr[1].weight_spec.is_symmetric
    /\ conv_hdr[1].input_spec.is_symmetric
    /\ conv_hdr[1].bias_spec.is_symmetric
    /\ conv_hdr[1].weight_spec.scale_exp + conv_hdr[1].input_spec.scale_exp
           = conv_hdr[1].bias_spec.scale_exp + (INT8_MAX - INT8_MIN + 1)
    /\ ~conv_hdr[1].dyadic_valid
    /\ conv_rc = <<CQ_ERROR_DYADIC_VIOLATION>>

(***************************************************************************)
(* Claims about the calibrator's life cycle                                *)
(***************************************************************************)
\* the observed ranges of the tensors
ObservedRanges(tensors) ==
    [i \in Tensors |-> <<tensors[i].min_observed, tensors[i].max_observed>>]

\* the global metrics of a report
GlobalMetrics(report) ==
    <<report.global_coverage_min, report.global_coverage_p10,
      report.global_coverage_mean>>

\* C16: once cq_calibration_report_finalize has returned 0 the report is
\* sealed: no later call changes sample_count, the observed ranges or the
\* global metrics; and sample_count never decreases.
C16_SealedAfterFinalize ==
    [][ /\ CalFinalized =>
              /\ cal_report'.sample_count = cal_report.sample_count
              /\ ObservedRanges(cal_tensors') = ObservedRanges(cal_tensors)
              /\ GlobalMetrics(cal_report') = GlobalMetrics(cal_report)
        /\ cal_report'.sample_count >= cal_report.sample_count ]_vars

(***************************************************************************)
(* Claims about the builder                                                *)
(***************************************************************************)
\* the builder after cq_certificate_builder_init and, in one fixed order,
\* one call of every setter that was called, with its last arguments
BuilderOf(last) ==
    LET arg(s) == last[s][1]
        b0 == cq_certificate_builder_init
        b1 == IF last["version"] = <<>> THEN b0
              ELSE cq_certificate_builder_set_version(b0, arg("version")[1],
                       arg("version")[2], arg("version")[3], arg("version")[4])
        b2 == IF last["source_hash"] = <<>> THEN b1
              ELSE cq_certificate_builder_set_source_hash(b1,
                       arg("source_hash")[1])
        b3 == IF last["bn_info"] = <<>> THEN b2
              ELSE cq_certificate_builder_set_bn_info(b2, arg("bn_info")[1],
                       arg("bn_info")[2])
        b4 == IF last["analysis"] = <<>> THEN b3
              ELSE cq_certificate_builder_set_analysis(b3, arg("analysis")[1])
        b5 == IF last["calibration"] = <<>> THEN b4
              ELSE cq_certificate_builder_set_calibration(b4,
                       arg("calibration")[1])
        b6 == IF last["verification"] = <<>> THEN b5
              ELSE cq_certificate_builder_set_verification(b5,
                       arg("verification")[1])
        b7 == IF last["target"] = <<>> THEN b6
              ELSE cq_certificate_builder_set_target(b6, arg("target")[1],
                       arg("target")[2], arg("target")[3])
        b8 == IF last["format"] = <<>> THEN b7
              ELSE cq_certificate_builder_set_format(b7, arg("format")[1])
    IN  b8

\* the six setters completion asks for
RequiredSetters ==
    {"source_hash", "bn_info", "analysis", "calibration", "verification",
     "target"}

\* the bytes of a certificate that depend on the time of the build
TimeDependent ==
    (OFF_timestamp..(OFF_timestamp + 7))
        \cup (OFF_merkle_root..(OFF_merkle_root + CQ_SHA256_DIGEST_SIZE - 1))

\* the builder, and the built certificate outside its timestamp and root,
\* depend only on the last arguments given to each setter
OrderIndependent ==
    /\ builder = BuilderOf(cert_calls.last)
    /\ (build_rc = <<0>> /\ tampered = -1) =>
          \A o \in CertOffsets \ TimeDependent :
              cert[o] = CertContent(BuilderOf(cert_calls.last), 0)[o]

\* C18 as stated: the builder is complete exactly when each of the six
\* required setters was called at least once with non-NULL arguments, and
\* the builder and the certificate built from it (its timestamp and root
\* apart) are the same for every order of the same final values.
C18_CompleteIffAllNonNull ==
    /\ cq_certificate_builder_is_complete(builder)
           <=> RequiredSetters \subseteq cert_calls.nonnull
    /\ OrderIndependent

\* C18 amended: the builder is complete exactly when source hash, analysis,
\* calibration, verification and target were each set at least once with
\* non-NULL arguments and cq_certificate_builder_set_bn_info was called at
\* least once, its hash NULL or not; order independence as stated.
C18_CompleteIffAllSet ==
    /\ cq_certificate_builder_is_complete(builder)
           <=> /\ (RequiredSetters \ {"bn_info"}) \subseteq cert_calls.nonnull
               /\ cert_calls.last["bn_info"] # <<>>
    /\ OrderIndependent

\* a certificate built from a builder whose BN info was only ever set with a
\* NULL hash
C18_Witness ==
    /\ build_rc = <<0>>
    /\ tampered = -1
    /\ "bn_info" \notin cert_calls.nonnull
    /\ cert_calls.last["format"] # <<>>
    /\ cert_calls.last["version"] # <<>>

\* C17: a phase's finalization does not return 0 while a fatal fault flag
\* is set: cq_calibration_report_finalize returns non-zero when a range
\* veto has set range_exceed.
C17_FinalizeRefusesOnFatal ==
    (cal_final /\ cq_has_fatal_fault(cal_faults)) => cal_rc # <<0>>

\* C19: whatever the order and the batching of the calls, a tensor's
\* min_observed and max_observed are the least and the greatest finite
\* value fed to it; NaN and infinite values leave them as they are, and
\* they keep their initial values while no finite value was fed.
C19_MinMaxOfFiniteFed ==
    \A i \in Tensors :
        LET t == cal_tensors[i]
        IN  /\ cal_seen[i] = <<>> =>
                  t.min_observed = FLT_MAX /\ t.max_observed = -FLT_MAX
            /\ cal_seen[i] # <<>> =>
                  t.min_observed = cal_seen[i][1]
                      /\ t.max_observed = cal_seen[i][2]

\* a tensor fed a batch holding a NaN and an infinity and, in another call,
\* a single value below the batch's least one
C19_Witness ==
    \E i \in Tensors :
        /\ cal_ops = 2
        /\ cal_seen[i] # <<>>
        /\ cal_seen[i][1] < -1
        /\ cal_seen[i][2] = 1
        /\ cal_tensors[i].min_observed = cal_seen[i][1]

\* finalization found the least or the 10th-percentile coverage below its
\* threshold
CoverageLow ==
    \/ RatLess(cal_report.global_coverage_min,
               CQ_CALIBRATE_CONFIG_DEFAULT.coverage_min_threshold)
    \/ RatLess(cal_report.global_coverage_p10,
               CQ_CALIBRATE_CONFIG_DEFAULT.coverage_p10_threshold)

\* C20: when finalization finds C_min or C_p10 below its threshold and no
\* tensor left its safe range, coverage_veto_triggered is set, no fault flag
\* is set, cq_calibration_passed is true and the digest generated from the
\* report has coverage_veto_status = 1 and range_veto_status = 0.
C20_CoverageVetoIsWarning ==
    (CalFinalized /\ CoverageLow /\ ~SomeTensorOutside) =>
        /\ cal_report.coverage_veto_triggered
        /\ cal_faults = {}
        /\ cal_report.faults = {}
        /\ cq_calibration_passed(cal_report)
        /\ cal_digest # <<>> =>
              /\ cal_digest[1].coverage_veto_status = 1
              /\ cal_digest[1].range_veto_status = 0

\* a finalized calibration with a tensor that was observed over less than
\* nine tenths of its safe range and never outside it, and its digest
C20_Witness ==
    /\ CalFinalized
    /\ CoverageLow
    /\ ~SomeTensorOutside
    /\ \E i \in Tensors :
          /\ cal_seen[i] # <<>>
          /\ cal_seen[i][1] < cal_seen[i][2]
          /\ RatLess(<<0, 1>>, cal_tensors[i].coverage_ratio)
          /\ RatLess(cal_tensors[i].coverage_ratio,
                     CQ_CALIBRATE_CONFIG_DEFAULT.coverage_min_threshold)
    /\ cal_digest # <<>>
    /\ cal_digest[1].coverage_veto_status = 1

(***************************************************************************)
(* Claims about deserialisation                                            *)
(***************************************************************************)
\* the header of the buffer's first CQ_CERTIFICATE_SIZE bytes is valid:
\* magic "CQCR", symmetric_only 0x01, format tag 0x00 or 0x01
BufferHeaderValid ==
    /\ MemGet(buffer, OFF_magic, 4) = Cells(<<67, 81, 67, 82>>)
    /\ buffer[OFF_scope_symmetric_only] = <<1>>
    /\ buffer[OFF_scope_format] \in {<<0>>, <<1>>}

\* cq_certificate_deserialise was called with a buffer
Received == deser_rc # NotCalled /\ buffer # NULL

\* C21: cq_certificate_deserialise returns non-zero for every buffer shorter
\* than 360 bytes whatever it holds, non-zero for a buffer of at least 360
\* bytes with an invalid header, and 0 for a buffer of at least 360 bytes
\* with a valid header even if its root does not match its content.
C21_DeserialiseChecks ==
    Received =>
        /\ buf_size[1] < 360 => deser_rc # <<0>>
        /\ (buf_size[1] >= 360 /\ ~BufferHeaderValid) => deser_rc # <<0>>
        /\ (buf_size[1] >= 360 /\ BufferHeaderValid) => deser_rc = <<0>>

\* a buffer with a valid header and a changed content byte is returned with
\* code 0 and fails the integrity check
C21_Witness ==
    /\ Received
    /\ buf_size[1] > 360
    /\ BufferHeaderValid
    /\ deser_rc = <<0>>
    /\ ~cq_certificate_verify_integrity(cert_restored)

\* C29: on every failing path of cq_certificate_deserialise the caller's
\* output certificate is what it was before the call.
C29_FailureLeavesCert ==
    (deser_rc # NotCalled /\ deser_rc # <<0>>) => cert_restored = ZeroCert

(***************************************************************************)
(* Further claims about the DVM primitives                                 *)
(***************************************************************************)
\* C22: for every valid shift k and all x1 <= x2, cq_round_shift_rne(x1, k)
\* <= cq_round_shift_rne(x2, k).  Stated for neighbours: the result for x
\* is not below the result for x - 1, which gives it for every pair.
C22_RneMonotone ==
    (PrimCalled("rne") /\ prim_call[3] <= MaxShift
        /\ prim_call[2] > INT64_MIN) =>
        cq_round_shift_rne(prim_call[2] - 1, prim_call[3],
                           cq_fault_clear).value
            <= prim_out[1].value

\* a step up at a tie point below zero: x is halfway, negative, and rounds
\* to one more than x - 1 does
C22_Witness ==
    /\ PrimCalled("rne")
    /\ prim_call[3] \in 1..MaxShift
    /\ prim_call[2] < 0
    /\ prim_call[2] > INT64_MIN
    /\ 2 * CRem(prim_call[2], Pow2(prim_call[3])) = -Pow2(prim_call[3])
    /\ prim_out[1].value =
           cq_round_shift_rne(prim_call[2] - 1, prim_call[3],
                              cq_fault_clear).value + 1

\* C23: when the overflow proof for (w_max, x_max, n) is safe, at most n
\* cq_mac_q16 calls from acc = 0 with |a| <= w_max and |b| <= x_max never
\* set the overflow or underflow flag, and acc is the exact sum of the
\* products after every call.
C23_SafeProofNoSaturation ==
    (/\ mac_proof # UNINIT
     /\ mac_proof.is_safe
     /\ mac_within
     /\ mac_count <= mac_proof.dot_product_len) =>
        /\ mac_faults \cap {"overflow", "underflow"} = {}
        /\ mac_acc = mac_sum

\* n >= 2 calls with operands of the largest admitted magnitudes: the sum
\* reaches n * w_max * x_max in magnitude
C23_Witness ==
    /\ mac_proof # UNINIT
    /\ mac_proof.is_safe
    /\ mac_within
    /\ mac_proof.dot_product_len >= 2
    /\ mac_count = mac_proof.dot_product_len
    /\ mac_proof.max_weight_mag > INT32_MAX
    /\ Abs(mac_sum) = mac_proof.dot_product_len * mac_proof.max_weight_mag
                          * mac_proof.max_input_mag
    /\ mac_acc = mac_sum

(***************************************************************************)
(* Further claims about the verifier                                       *)
(***************************************************************************)
\* C24: in every reachable state of a verification report, under any
\* interleaving of the update calls and cq_verify_check_all_bounds,
\* cq_verify_passed(report) implies that every layer's current
\* error_max_measured is within its theoretical bound and the current
\* total_error_max_measured is within total_error_theoretical.
C24_PassedImpliesCurrentBounds ==
    cq_verify_passed(ver_report) =>
        /\ \A i \in Layers :
              ver_layers[i].error_max_measured
                  <= ver_layers[i].error_bound_theoretical
        /\ ver_report.total_error_max_measured
               <= ver_report.total_error_theoretical

(***************************************************************************)
(* Further claims about the notary                                         *)
(***************************************************************************)
\* C25: for every certificate produced by cq_certificate_build,
\* cq_certificate_bounds_satisfied(cert) is true iff the verification
\* digest given to the builder has bounds_satisfied = 1.
C25_BoundsSatisfiedIffDigest ==
    build_rc = <<0>> =>
        (cq_certificate_bounds_satisfied(cert)
            <=> builder.verification_digest.bounds_satisfied = 1)

(***************************************************************************)
(* Further claims about the calibrator                                     *)
(***************************************************************************)
RatEq(p, q) == ~RatLess(p, q) /\ ~RatLess(q, p)

\* v stands at index idx (from 0) of the tensors' coverages sorted ascending
AtSortedIndex(v, idx) ==
    LET n == cal_report.tensor_count
        below == Cardinality({j \in 1..n :
                     RatLess(cal_tensors[j].coverage_ratio, v)})
        upto  == Cardinality({j \in 1..n :
                     ~RatLess(v, cal_tensors[j].coverage_ratio)})
    IN  below <= idx /\ idx < upto

\* v is the least of the tensors' coverages
IsLeastCoverage(v) ==
    LET n == cal_report.tensor_count
    IN  /\ \E j \in 1..n : RatEq(cal_tensors[j].coverage_ratio, v)
        /\ \A j \in 1..n : ~RatLess(cal_tensors[j].coverage_ratio, v)

\* C26: after cq_calibration_compute_global_coverage over N >= 1 tensors,
\* global_coverage_min is the minimum tensor coverage and
\* global_coverage_p10 is the element at index floor(0.10 * N), clipped to
\* [0, N-1], of the coverages sorted ascending; min <= p10, with equality
\* for N < 10.
C26_GlobalMinAndP10 ==
    cal_ops = 1 =>
        LET n == cal_report.tensor_count
            idx == IF n \div 10 > n - 1 THEN n - 1 ELSE n \div 10
        IN  /\ IsLeastCoverage(cal_report.global_coverage_min)
            /\ AtSortedIndex(cal_report.global_coverage_p10, idx)
            /\ ~RatLess(cal_report.global_coverage_p10,
                        cal_report.global_coverage_min)
            /\ n < 10 => RatEq(cal_report.global_coverage_min,
                               cal_report.global_coverage_p10)

(***************************************************************************)
(* Further claims about the converter                                      *)
(***************************************************************************)
\* C27: in any sequence of cq_verify_constraints calls on the same header,
\* with its specs changed between calls, hdr.dyadic_valid is false after
\* every call that returns non-zero.
C27_FailingCallClearsDyadicValid ==
    (ConvCalled("cq_verify_constraints") /\ conv_rc # <<0>>) =>
        ~conv_hdr[1].dyadic_valid

\* C28: after cq_calibration_report_finalize on tensors with
\* min_safe < max_safe, every tensor that did not trigger the range veto
\* has 0 <= coverage_ratio <= 1, a tensor that never received a finite
\* sample included.
C28_CoverageWithinUnitInterval ==
    CalFinalized =>
        \A i \in Tensors :
            LET t == cal_tensors[i]
            IN  (t.min_safe < t.max_safe /\ ~t.range_veto) =>
                    /\ ~RatLess(t.coverage_ratio, <<0, 1>>)
                    /\ ~RatLess(<<1, 1>>, t.coverage_ratio)

(***************************************************************************)
(* Claims about the streaming SHA-256                                      *)
(***************************************************************************)
\* FIPS 180-4 padding: the message, one 0x80 byte, zero fill to 56 mod 64,
\* the 64-bit big-endian bit length
Padded(msg) ==
    LET n == Len(msg)
        k == (CQ_SHA256_BLOCK_SIZE
                - ((n + 9) % CQ_SHA256_BLOCK_SIZE)) % CQ_SHA256_BLOCK_SIZE
    IN  msg \o <<128>> \o Zeros(k) \o BEBytes(8 * n, 8)

PaddedBlocks(msg) ==
    LET p == Padded(msg)
    IN  [b \in 1..(Len(p) \div CQ_SHA256_BLOCK_SIZE) |->
            SubSeq(p, (b - 1) * CQ_SHA256_BLOCK_SIZE + 1,
                   b * CQ_SHA256_BLOCK_SIZE)]

\* C30: for any message and any split of it into consecutive chunks, the
\* chunks fed through cq_sha256_update and then cq_sha256_final compress
\* exactly the padded message's 64-byte blocks, as the one-shot cq_sha256
\* does, so the digests are equal; the buffer write index never exceeds 63.
C30_ChunkedEqualsOneShot ==
    /\ sha_hi <= CQ_SHA256_BLOCK_SIZE - 1
    /\ sha_digest # <<>> =>
          /\ sha_ctx.state = PaddedBlocks(sha_msg)
          /\ sha_digest = cq_sha256(sha_msg)

\* a message longer than a block whose length leaves no room for the bit
\* count, fed with an empty chunk and a chunk straddling a block boundary
C30_Witness ==
    /\ sha_digest # <<>>
    /\ Len(sha_msg) > CQ_SHA256_BLOCK_SIZE
    /\ Len(sha_msg) % CQ_SHA256_BLOCK_SIZE >= SHA256_LENGTH_OFFSET
    /\ sha_split = {"empty", "straddle"}
    /\ Len(sha_ctx.state) = 3
    /\ sha_digest = cq_sha256(sha_msg)

====
